---- MODULE Spec2Model ----
(***************************************************************************)
(* Model of the ISO build orchestration of make_arch_iso_gui.py:            *)
(* ISOBuilderThread (the build worker), its _build_package_list manifest    *)
(* builder, and the parts of ISOBuilderGUI that start, stop and finish a    *)
(* build.                                                                   *)
(*                                                                          *)
(* Python strings are sequences of atoms: an atom is a blank, a hash sign   *)
(* or a whole word, so that strip(), startswith('#') and substring tests    *)
(* are computed on the text and not assumed.  A text file is the sequence   *)
(* of its lines.                                                            *)
(***************************************************************************)
EXTENDS Integers, Sequences, FiniteSets, TLC

\* ------------------------------------------------------------------ bounds

\* Longest base profile package list (in lines) the manifest checks draw.
MaxBaseLines == 2
\* Most build attempts the operator starts in one run of the control surface.
MaxAttempts == 2
\* Most output lines the external builder prints in one attempt.
MaxLines == 2
\* Most lines read from dd in one media write.
MaxDdLines == 3
\* Most lines of a profiledef.sh.
MaxProfiledefLines == 2

\* ------------------------------------------------------------- text helpers

SP == " "
HASH == "#"

SeqToSet(s) == {s[i] : i \in DOMAIN s}

\* str.lstrip() / str.rstrip() / str.strip() on a string of atoms.
RECURSIVE LStrip(_)
LStrip(s) ==
    IF s # <<>> /\ Head(s) = SP THEN LStrip(Tail(s)) ELSE s

RECURSIVE RStrip(_)
RStrip(s) ==
    IF s # <<>> /\ s[Len(s)] = SP THEN RStrip(SubSeq(s, 1, Len(s) - 1)) ELSE s

Strip(s) == RStrip(LStrip(s))

\* `stripped and not stripped.startswith('#')`: the line names a package.
IsPackageLine(line) ==
    LET stripped == Strip(line)
    IN  stripped # <<>> /\ Head(stripped) # HASH

\* The atoms in Python's string order (blank < '#' < letters), used by sorted().
AtomOrder ==
    << " ", "#", "Added from current system", "a", "archiso",
       "base", "c", "gdm",
       "gnome-session", "gnome-shell", "linux", "linux-firmware", "mesa",
       "mkinitcpio", "mkinitcpio-archiso", "networkmanager",
       "squashfs-tools", "xorg-server" >>

AtomRank(a) == CHOOSE i \in DOMAIN AtomOrder : AtomOrder[i] = a

\* s < t for two strings, compared atom by atom.
RECURSIVE StrLess(_, _)
StrLess(s, t) ==
    IF t = <<>> THEN FALSE
    ELSE IF s = <<>> THEN TRUE
    ELSE IF Head(s) # Head(t) THEN AtomRank(Head(s)) < AtomRank(Head(t))
    ELSE StrLess(Tail(s), Tail(t))

\* sorted(S) for a set of strings.
RECURSIVE Sorted(_)
Sorted(S) ==
    IF S = {} THEN <<>>
    ELSE LET m == CHOOSE x \in S : \A y \in S : x = y \/ StrLess(x, y)
         IN  <<m>> \o Sorted(S \ {m})

\* -------------------------------------------------- _build_package_list

required_packages ==
    { <<"mkinitcpio">>, <<"mkinitcpio-archiso">>, <<"squashfs-tools">>,
      <<"linux">>, <<"linux-firmware">>, <<"base">> }

gui_must ==
    << <<"xorg-server">>, <<"gnome-shell">>, <<"gnome-session">>, <<"gdm">>,
       <<"networkmanager">>, <<"mesa">> >>

AddedComment == << HASH, SP, "Added from current system" >>

\* base_packages: the stripped package lines of the base list, in order.
BasePackages(base_lines) ==
    LET stripped == [i \in DOMAIN base_lines |-> Strip(base_lines[i])]
    IN  SelectSeq(stripped, IsPackageLine)

\* Variant of ExcludedEffective that applies every exclusion, the required
\* packages included.
ExcludedEffectiveAll(excluded_set) == excluded_set

\* excluded_effective = excluded_set - required_packages
ExcludedEffective(excluded_set) == excluded_set \ required_packages

\* excluded_ignored = excluded_set & required_packages (reported, not applied)
ExcludedIgnored(excluded_set) == excluded_set \cap required_packages

\* base_lines_filtered: every line but the package lines effectively excluded.
BaseLinesFiltered(base_lines, excluded_effective) ==
    LET keep(line) == ~(IsPackageLine(line) /\ Strip(line) \in excluded_effective)
    IN  SelectSeq(base_lines, keep)

\* Variant of CustomPackages that does not drop the excluded candidates.
CustomPackagesUnfiltered(packages, excluded_effective, base_package_set) ==
    Sorted({ pkg \in SeqToSet(packages) :
               Strip(pkg) # <<>> /\ pkg \notin base_package_set })

\* custom_packages: candidates not excluded and not in the base list, as a
\* sorted list without duplicates.
CustomPackages(packages, excluded_effective, base_package_set) ==
    Sorted({ pkg \in SeqToSet(packages) :
               /\ Strip(pkg) # <<>>
               /\ pkg \notin excluded_effective
               /\ pkg \notin base_package_set })

\* required_missing = sorted(required - (set(custom_packages) | base_package_set))
RequiredMissing(custom_packages, base_package_set) ==
    Sorted(required_packages \ (SeqToSet(custom_packages) \cup base_package_set))

\* The lines of "\n".join(lines).rstrip() + "\n": trailing blank lines go, the
\* last line loses its trailing blanks, and an all-blank text is one empty line.
RECURSIVE JoinedRStrip(_)
JoinedRStrip(lines) ==
    IF lines = <<>> THEN << <<>> >>
    ELSE IF RStrip(lines[Len(lines)]) = <<>>
         THEN JoinedRStrip(SubSeq(lines, 1, Len(lines) - 1))
         ELSE SubSeq(lines, 1, Len(lines) - 1) \o << RStrip(lines[Len(lines)]) >>

\* Variant of WrittenLines that writes the separator comment whether or not
\* anything follows it.
WrittenLinesAlwaysSeparated(base_lines_filtered, required_missing, custom_packages) ==
    (IF base_lines_filtered # <<>> THEN JoinedRStrip(base_lines_filtered) ELSE <<>>)
    \o << <<>>, AddedComment >> \o required_missing \o custom_packages

\* Variant of WrittenLines that writes the custom packages before the missing
\* required packages.
WrittenLinesCustomFirst(base_lines_filtered, required_missing, custom_packages) ==
    (IF base_lines_filtered # <<>> THEN JoinedRStrip(base_lines_filtered) ELSE <<>>)
    \o (IF required_missing # <<>> \/ custom_packages # <<>>
        THEN << <<>>, AddedComment >> \o custom_packages \o required_missing
        ELSE <<>>)

\* The lines written to packages.x86_64.
WrittenLines(base_lines_filtered, required_missing, custom_packages) ==
    (IF base_lines_filtered # <<>> THEN JoinedRStrip(base_lines_filtered) ELSE <<>>)
    \o (IF required_missing # <<>> \/ custom_packages # <<>>
        THEN << <<>>, AddedComment >> \o required_missing \o custom_packages
        ELSE <<>>)

\* pkg_lines: the file read back, stripped, without blank and comment lines.
ReRead(file_lines) == BasePackages(file_lines)

\* Variant of BuildPackageList that returns the required packages and leaves
\* the file as it was.
BuildPackageListUnwritten(base_lines, packages, excluded_packages) ==
    [ file |-> base_lines,
      pkg_lines |-> Sorted(required_packages),
      pkg_count |-> Cardinality(required_packages) ]

\* Variant of BuildPackageList that returns every line it wrote, the blank
\* and comment lines included.
BuildPackageListAllLines(base_lines, packages, excluded_packages) ==
    LET base_package_set == SeqToSet(BasePackages(base_lines))
        excluded_effective == ExcludedEffective(excluded_packages)
        base_lines_filtered == BaseLinesFiltered(base_lines, excluded_effective)
        custom_packages == CustomPackages(packages, excluded_effective, base_package_set)
        required_missing == RequiredMissing(custom_packages, base_package_set)
        written == WrittenLines(base_lines_filtered, required_missing, custom_packages)
    IN  [ file |-> written,
          pkg_lines |-> written,
          pkg_count |-> Len(written) ]

\* The lines of the text "\n".join(pkg_lines) + "\n" that run() writes to
\* pkglist.txt: the names, or one empty line when there is no name.
PkgListText(pkg_lines) ==
    IF pkg_lines = <<>> THEN << <<>> >> ELSE pkg_lines

\* _build_package_list on an existing packages.x86_64: the file it leaves and
\* the (pkg_lines, pkg_count) it returns.
BuildPackageList(base_lines, packages, excluded_packages) ==
    LET base_package_set == SeqToSet(BasePackages(base_lines))
        excluded_effective == ExcludedEffective(excluded_packages)
        base_lines_filtered == BaseLinesFiltered(base_lines, excluded_effective)
        custom_packages == CustomPackages(packages, excluded_effective, base_package_set)
        required_missing == RequiredMissing(custom_packages, base_package_set)
        written == WrittenLines(base_lines_filtered, required_missing, custom_packages)
    IN  [ file |-> written,
          pkg_lines |-> ReRead(written),
          pkg_count |-> Len(ReRead(written)) ]

\* The package count below which run() warns of a very small list.
MinPackages == 10

\* Variant of TooSmall that never warns.
TooSmallNever(pkg_count) == FALSE

\* `pkg_count < 10`
TooSmall(pkg_count) == pkg_count < MinPackages

\* ---------------------------------------------------------------- state

Attempts == 1 .. MaxAttempts

VARIABLES
    host,       \* the machine the build runs on: privileges, releng profile,
                \* package database and cache (read-only inputs)
    config,     \* the BuildConfig handed to every ISOBuilderThread
    fs,         \* work_dir/profile and output_dir, shared by all attempts
    pc,         \* pc[w]: where attempt w's ISOBuilderThread.run is
    loc,        \* loc[w]: the local variables of attempt w's run()
    proc,       \* proc[w]: the mkarchiso subprocess (self.process)
    progress,   \* progress[w]: the value last emitted on progress_signal
    fin,        \* fin[w]: finished_signal of attempt w: none/queued/delivered
    result,     \* result[w]: the (success, message) finished_signal carries
    outcomes,   \* outcomes[w]: what build_finished was called with for w
    cancelled,  \* cancelled[w]: stop_build was invoked on attempt w
    gui,        \* ISOBuilderGUI: buttons, builder_thread, USB writer threads
    customize,  \* one run of the generated /root/customize_airootfs.sh
    installer,  \* one run of the generated /root/install.sh
    writer,     \* one USBWriterThread: its run() and its dd subprocess
    profiledef, \* one rewriting of profile/profiledef.sh by run()
    reuse       \* one click on Build: the images found, the prompt, the reply

\* The build session: the host, the directories, the workers and the GUI.
session == << host, config, fs, pc, loc, proc, progress, fin, result, outcomes,
              cancelled, gui >>

\* What lives outside the build session: runs of the generated scripts,
\* the media-write worker and the rewriting of the profile definition.
outside == << customize, installer, writer, profiledef, reuse >>

vars == << host, config, fs, pc, loc, proc, progress, fin, result, outcomes,
           cancelled, gui, outside >>

\* 1 GiB, the image-size threshold of the verifier, in bytes (size is
\* st_size / 1024**3 compared with 1.0).
GiB == 1073741824

\* The largest payload size in bytes the verifier calls very small
\* (squashfs_size, st_size / 1024**3, below 0.1).
SmallPayload == 107374182

NoFile == << "absent" >>

EmptyFs ==
    [ profile |-> FALSE,      \* work_dir/profile exists with its critical files
      pkg_file |-> NoFile,    \* profile/packages.x86_64: its lines, or NoFile
      local_repo |-> {},      \* artifacts in airootfs/opt/local-repo
      repo_db |-> FALSE,      \* local-repo.db.tar.gz exists beside them
      stanzas |-> 0,          \* [local-repo] stanzas in profile/pacman.conf
      pkglist |-> NoFile,     \* airootfs/root/pkglist.txt
      iso |-> 0,              \* size of output_dir/*.iso in bytes, 0: none
      squashfs |-> 0 ]        \* size of the *.squashfs payload, 0: none

InitLoc ==
    [ repo_packages |-> <<>>, aur_packages |-> <<>>,
      successfully_copied_aur |-> <<>>, failed_aur_packages |-> <<>>,
      packages |-> <<>>, pkg_lines |-> <<>>, pkg_count |-> 0,
      small_warning |-> FALSE,  \* "[WARN] Package list is very small" was logged
      error_detected |-> FALSE, lines_read |-> 0,
      line |-> <<>>,          \* the builder line last read and relayed
      line_emitted |-> <<>>,  \* what was sent on progress_signal for it
      line_log |-> <<>>,      \* what was sent on log_signal for it
      iso_size |-> 0, squashfs_size |-> 0, is_valid |-> FALSE ]

NoProcess == [ state |-> "none", returncode |-> 0, signalled |-> FALSE ]

NoResult == [ success |-> FALSE, reason |-> "none" ]

InitGui ==
    [ build_btn |-> TRUE, stop_btn |-> FALSE, builder_thread |-> 0,
      last_iso_path |-> FALSE, usb_target |-> "off", usb_writers |-> 0 ]

\* customize_airootfs.sh before it is run.
NoCustomizeRun ==
    [ at |-> 0, ran |-> {}, failed |-> {}, exit |-> "none",
      setup_executable |-> FALSE, skel_saved |-> FALSE, gdm_installed |-> FALSE ]

\* install.sh before it is run.
NoInstallerRun ==
    [ pc |-> "none", at |-> 0, exit |-> "none", disk |-> "none", conf |-> "none",
      uefi |-> FALSE, pkglist |-> FALSE, gdm_installed |-> FALSE,
      touched |-> FALSE, phases |-> <<>> ]

\* USBWriterThread before it is started.
NoWriter ==
    [ pc |-> "none", is_root |-> FALSE, device_exists |-> FALSE,
      progress |-> 0, lines_read |-> 0, line |-> <<>>, dd |-> "none",
      returncode |-> 0, fin |-> "none", result |-> NoResult,
      commands |-> {} ]       \* the external commands run() has started

\* The profile definition is not being rewritten.
NoProfiledefRun ==
    [ pc |-> "idle", original |-> NoFile, file |-> NoFile,
      iso_name |-> "", iso_label |-> "", lines |-> <<>>, raised |-> "none" ]

\* find_existing_iso returned None.
NoImage == [ name |-> <<>>, age |-> 0 ]

\* The Build button has not been clicked.
NoReuse ==
    [ pc |-> "none", images |-> {}, existing_iso |-> NoImage, reply |-> "none",
      finished |-> <<>> ]

\* No generated script and no media write is running: the state of a build
\* session.
NoScriptRuns ==
    /\ customize = NoCustomizeRun
    /\ installer = NoInstallerRun
    /\ writer = NoWriter
    /\ profiledef = NoProfiledefRun
    /\ reuse = NoReuse

\* ISOBuilderThread.__init__ and ISOBuilderGUI.__init__ for every attempt slot.
InitControl ==
    /\ pc = [w \in Attempts |-> "idle"]
    /\ loc = [w \in Attempts |-> InitLoc]
    /\ proc = [w \in Attempts |-> NoProcess]
    /\ progress = [w \in Attempts |-> 0]
    /\ fin = [w \in Attempts |-> "none"]
    /\ result = [w \in Attempts |-> NoResult]
    /\ outcomes = [w \in Attempts |-> <<>>]
    /\ cancelled = [w \in Attempts |-> FALSE]
    /\ gui \in { [InitGui EXCEPT !.usb_target = target] :
                      target \in { "off", "valid" } }

\* ------------------------------------------------- run(): package selection

\* The names of all_packages the loops do not skip (`if not pkg.strip()`).
NonBlank(all_packages) ==
    LET named(pkg) == Strip(pkg) # <<>>
    IN  SelectSeq(all_packages, named)

\* Variant of RepoPackages that gives up every name when one does not
\* resolve.
RepoPackagesUnlessAnyFails(all_packages, sync_db) ==
    IF \E pkg \in SeqToSet(NonBlank(all_packages)) : pkg \notin sync_db
    THEN <<>>
    ELSE NonBlank(all_packages)

\* `pacman -Si pkg` returns 0: the name resolves against the sync databases.
RepoPackages(all_packages, sync_db) ==
    LET in_repo(pkg) == pkg \in sync_db
    IN  SelectSeq(NonBlank(all_packages), in_repo)

\* Variant of AurPackages that drops the names whose query fails.
AurPackagesDropped(all_packages, sync_db) == <<>>

\* `pacman -Si pkg` returns nonzero.
AurPackages(all_packages, sync_db) ==
    LET not_in_repo(pkg) == pkg \notin sync_db
    IN  SelectSeq(NonBlank(all_packages), not_in_repo)

\* Path(cache).glob(f"{pkg}-*.pkg.tar.*"): the cached artifacts, named by the
\* package they hold, whose file name starts with pkg and a dash.
GlobMatches(pkg, pkg_cache) ==
    { c \in pkg_cache :
        \/ c = pkg
        \/ << pkg, c >> \in { << <<"linux">>, <<"linux-firmware">> >>,
                              << <<"mkinitcpio">>, <<"mkinitcpio-archiso">> >> } }

\* successfully_copied_aur: `pacman -Ql` succeeds and the glob finds a file.
SuccessfullyCopiedAur(aur_packages, local_db, pkg_cache) ==
    LET found(pkg) == pkg \in local_db /\ GlobMatches(pkg, pkg_cache) # {}
    IN  SelectSeq(aur_packages, found)

\* failed_aur_packages: `pacman -Ql` succeeds and the glob finds nothing.
FailedAurPackages(aur_packages, local_db, pkg_cache) ==
    LET not_found(pkg) == pkg \in local_db /\ GlobMatches(pkg, pkg_cache) = {}
    IN  SelectSeq(aur_packages, not_found)

\* `[pkg for pkg in lst if pkg not in excluded_packages]`, applied only when
\* the exclusion set is not empty.
WithoutExcluded(lst, excluded_packages) ==
    LET kept(pkg) == pkg \notin excluded_packages
    IN  SelectSeq(lst, kept)

\* Variant of AddedGui that does not look at the installed inventory.
AddedGuiIgnoringInventory(packages, all_packages, excluded_packages) ==
    LET wanted(must) ==
            /\ must \notin excluded_packages
            /\ must \notin SeqToSet(packages)
    IN  SelectSeq(gui_must, wanted)

\* added_gui: the GUI-required packages run() appends to packages.
AddedGui(packages, all_packages, excluded_packages) ==
    LET wanted(must) ==
            /\ must \notin excluded_packages
            /\ must \notin SeqToSet(packages)
            /\ must \notin SeqToSet(all_packages)
    IN  SelectSeq(gui_must, wanted)

\* ------------------------------------------------------ builder output lines

\* str.lower() on one atom.
LowerAtom(a) ==
    CASE a = "Creating" -> "creating"
      [] a = "SquashFS" -> "squashfs"
      [] a = "ISO" -> "iso"
      [] a = "Installing" -> "installing"
      [] a = "Building" -> "building"
      [] a = "INFO:" -> "info:"
      [] a = "WARNING:" -> "warning:"
      [] a = "ERROR:" -> "error:"
      [] OTHER -> a

Lower(line) == [i \in DOMAIN line |-> LowerAtom(line[i])]

\* Lower-case atoms that hold the word as a substring.
AtomsHolding(word) ==
    CASE word = "iso" -> { "iso", "[mkarchiso]" }
      [] word = "warning" -> { "warning", "warning:" }
      [] word = "failed" -> { "failed", "failed:" }
      [] word = "copied" -> { "copied", "copied," }
      [] OTHER -> { word }

\* `word in line_lower`
Has(word, line_lower) ==
    \E i \in DOMAIN line_lower : line_lower[i] \in AtomsHolding(word)

\* `pattern in line_lower` for a pattern of several words.
HasPhrase(pattern, line_lower) ==
    \E i \in 0 .. (Len(line_lower) - Len(pattern)) :
        \A j \in DOMAIN pattern : line_lower[i + j] = pattern[j]

non_fatal_patterns ==
    { << "/boot/grub/grub.cfg.new:", "no", "such", "file", "or", "directory" >>,
      << "running", "in", "chroot" >>,
      << "skipped:", "running", "in", "chroot" >>,
      << "errors", "were", "encountered", "during", "the", "build.",
         "the", "image", "may", "not", "be", "complete" >> }

error_keywords == { "error:", "failed", "fatal:", "cannot", "unable" }

\* Variant of IsFatalSignal without the list of non-fatal patterns.
IsFatalSignalNoAllowlist(line) ==
    LET line_lower == Lower(line)
    IN  /\ \E keyword \in error_keywords : Has(keyword, line_lower)
        /\ ~Has("warning", line_lower)

\* The line sets error_detected.
IsFatalSignal(line) ==
    LET line_lower == Lower(line)
        is_non_fatal == \E pattern \in non_fatal_patterns :
                            HasPhrase(pattern, line_lower)
    IN  /\ ~is_non_fatal
        /\ \E keyword \in error_keywords : Has(keyword, line_lower)
        /\ ~Has("warning", line_lower)

\* Variant of MilestoneOf that tests the image pattern before the payload
\* pattern.
MilestoneOfImageFirst(line, current) ==
    LET line_lower == Lower(line)
    IN  IF Has("iso", line_lower) /\ Has("creating", line_lower) THEN 90
        ELSE IF Has("squashfs", line_lower)
                /\ (Has("creating", line_lower) \/ Has("created", line_lower))
        THEN 80
        ELSE IF Has("packages", line_lower) /\ Has("installing", line_lower) THEN 50
        ELSE IF Has("building", line_lower) /\ Has("airootfs", line_lower) THEN 60
        ELSE current

\* The value the line makes run() emit on progress_signal; `current` (no
\* emission) when the line matches no pattern.
MilestoneOf(line, current) ==
    LET line_lower == Lower(line)
    IN  IF Has("squashfs", line_lower)
           /\ (Has("creating", line_lower) \/ Has("created", line_lower))
        THEN 80
        ELSE IF Has("iso", line_lower) /\ Has("creating", line_lower) THEN 90
        ELSE IF Has("packages", line_lower) /\ Has("installing", line_lower) THEN 50
        ELSE IF Has("building", line_lower) /\ Has("airootfs", line_lower) THEN 60
        ELSE current

\* Lines mkarchiso may print.
BuilderLines ==
    { << "[mkarchiso]", "INFO:", "Creating", "SquashFS", "image" >>,
      << "[mkarchiso]", "INFO:", "Creating", "ISO", "image" >>,
      << "[mkarchiso]", "INFO:", "Installing", "packages" >>,
      << "Building", "airootfs" >>,
      << "error:", "target", "not", "found" >>,
      << "[mkarchiso]", "WARNING:", "failed", "to", "sign" >>,
      << "ERROR:", "skipped:", "running", "in", "chroot" >> }

\* ------------------------------------------------------ artifact verifier

\* Variant of Verify that also fails an image found when the exit code is
\* not 0.
VerifyByExitCode(iso_size, squashfs_size, returncode) ==
    IF iso_size > 0
    THEN IF returncode # 0 \/ (squashfs_size = 0 /\ iso_size < GiB)
         THEN [ success |-> FALSE, reason |-> "verification_failed" ]
         ELSE [ success |-> TRUE, reason |-> "iso_path" ]
    ELSE IF returncode = 0
         THEN [ success |-> FALSE, reason |-> "iso_not_found" ]
         ELSE [ success |-> FALSE, reason |-> "exit_code" ]

\* Variant of Verify that reports success whatever was found.
VerifyAlwaysPass(iso_size, squashfs_size, returncode) ==
    [ success |-> TRUE, reason |-> "iso_path" ]

\* The (success, message) run() emits once mkarchiso has exited, from the
\* size of the image found (0: none), the size of the payload found (0:
\* none) and the exit code.
Verify(iso_size, squashfs_size, returncode) ==
    IF iso_size > 0
    THEN LET squashfs_found == squashfs_size > 0 \/ iso_size > GiB
         IN  IF ~squashfs_found /\ iso_size < GiB
             THEN [ success |-> FALSE, reason |-> "verification_failed" ]
             ELSE [ success |-> TRUE, reason |-> "iso_path" ]
    ELSE IF returncode = 0
         THEN [ success |-> FALSE, reason |-> "iso_not_found" ]
         ELSE [ success |-> FALSE, reason |-> "exit_code" ]

\* ------------------------------------------------- ISOBuilderThread.run

\* Variant of Finish after which run() does not return.
FinishAndGoOn(w, success, reason) ==
    /\ pc' = pc
    /\ fin' = [fin EXCEPT ![w] = "queued"]
    /\ result' = [result EXCEPT ![w] = [success |-> success, reason |-> reason]]

\* Variant of Finish in which run() returns without emitting the signal.
FinishSilently(w, success, reason) ==
    /\ pc' = [pc EXCEPT ![w] = "done"]
    /\ UNCHANGED << fin, result >>

\* self.finished_signal.emit(success, message), after which run() returns.
Finish(w, success, reason) ==
    /\ pc' = [pc EXCEPT ![w] = "done"]
    /\ fin' = [fin EXCEPT ![w] = "queued"]
    /\ result' = [result EXCEPT ![w] = [success |-> success, reason |-> reason]]

\* run() goes on to its next step.
Goto(w, label) ==
    /\ pc' = [pc EXCEPT ![w] = label]
    /\ UNCHANGED << fin, result >>

\* self.progress_signal.emit(value)
EmitProgress(w, value) == progress' = [progress EXCEPT ![w] = value]

\* Variant of RootCheck that goes on to the cleanup whoever runs it.
RootCheckSkipped(w) ==
    /\ pc[w] = "start"
    /\ Goto(w, "cleanup")
    /\ UNCHANGED << outside, host, config, fs, loc, proc, progress, outcomes, cancelled, gui >>

\* The root check that opens run().
RootCheck(w) ==
    /\ pc[w] = "start"
    /\ IF host.is_root
       THEN Goto(w, "cleanup")
       ELSE Finish(w, FALSE, "root_required")
    /\ UNCHANGED << outside, host, config, fs, loc, proc, progress, outcomes, cancelled, gui >>

\* work_dir and output_dir are removed (`rm -rf`, unchecked: what it could
\* not remove stays) and created again with exist_ok; progress 10.
Cleanup(w) ==
    /\ pc[w] = "cleanup"
    /\ \E work_removed \in BOOLEAN, output_removed \in BOOLEAN :
         fs' = [ profile |-> IF work_removed THEN FALSE ELSE fs.profile,
                 pkg_file |-> IF work_removed THEN NoFile ELSE fs.pkg_file,
                 local_repo |-> IF work_removed THEN {} ELSE fs.local_repo,
                 repo_db |-> IF work_removed THEN FALSE ELSE fs.repo_db,
                 stanzas |-> IF work_removed THEN 0 ELSE fs.stanzas,
                 pkglist |-> IF work_removed THEN NoFile ELSE fs.pkglist,
                 squashfs |-> IF work_removed THEN 0 ELSE fs.squashfs,
                 iso |-> IF output_removed THEN 0 ELSE fs.iso ]
    /\ EmitProgress(w, 10)
    /\ Goto(w, "archiso")
    /\ UNCHANGED << outside, host, config, loc, proc, outcomes, cancelled, gui >>

\* `pacman -Q archiso`; when archiso is not installed, the checked
\* `pacman -Sy --noconfirm archiso`, which refreshes the sync databases,
\* downloads the package into the cache and installs it explicitly.
CheckArchiso(w) ==
    /\ pc[w] = "archiso"
    /\ IF << "archiso" >> \in host.local_db
       THEN Goto(w, "profile") /\ EmitProgress(w, 20) /\ UNCHANGED host
       ELSE \E ok \in BOOLEAN :
              IF ok
              THEN /\ host' = [host EXCEPT
                         !.sync_db = @ \cup { << "archiso" >> },
                         !.local_db = @ \cup { << "archiso" >> },
                         !.pkg_cache = @ \cup { << "archiso" >> },
                         !.all_packages =
                             Sorted(SeqToSet(NonBlank(@)) \cup { << "archiso" >> })]
                   /\ Goto(w, "profile")
                   /\ EmitProgress(w, 20)
              ELSE /\ Finish(w, FALSE, "exception")
                   /\ UNCHANGED << host, progress >>
    /\ UNCHANGED << outside, config, fs, loc, proc, outcomes, cancelled, gui >>

\* The releng profile is copied to work_dir/profile and checked for its
\* critical files; with include_custom_repos the host's pacman.conf replaces
\* the profile's and the local repository directory is made; progress 30.
CopyProfile(w) ==
    /\ pc[w] = "profile"
    /\ \E ok \in BOOLEAN :
         IF host.source_profile = "ok" /\ ok
         THEN /\ fs' = [fs EXCEPT !.profile = TRUE,
                                  !.pkg_file = host.base_profile,
                                  !.local_repo = {},
                                  !.repo_db = FALSE,
                                  !.stanzas = 0,
                                  !.pkglist = NoFile]
              /\ EmitProgress(w, 30)
              /\ Goto(w, "classify")
         ELSE /\ Finish(w, FALSE, "exception")
              /\ fs' = [fs EXCEPT !.profile = FALSE,
                                  !.pkg_file = NoFile,
                                  !.local_repo = {},
                                  !.repo_db = FALSE,
                                  !.stanzas = 0,
                                  !.pkglist = NoFile]
              /\ UNCHANGED progress
    /\ UNCHANGED << outside, host, config, loc, proc, outcomes, cancelled, gui >>

\* `pacman -Qqe` (checked) and the `pacman -Si` loop over its names.
Classify(w) ==
    /\ pc[w] = "classify"
    /\ \E ok \in BOOLEAN :
         IF ok
         THEN /\ loc' = [loc EXCEPT
                    ![w].repo_packages =
                        IF config.include_custom_repos
                        THEN RepoPackages(host.all_packages, host.sync_db)
                        ELSE <<>>,
                    ![w].aur_packages = AurPackages(host.all_packages, host.sync_db),
                    ![w].packages =
                        IF config.include_custom_repos
                        THEN <<>>
                        ELSE RepoPackages(host.all_packages, host.sync_db)]
              /\ Goto(w, IF config.include_custom_repos THEN "stage" ELSE "manifest")
         ELSE /\ Finish(w, FALSE, "exception")
              /\ UNCHANGED loc
    /\ UNCHANGED << outside, host, config, fs, proc, progress, outcomes, cancelled, gui >>

\* The local repository: artifacts are copied (unchecked `cp`); when the
\* directory holds a file the index is made (unchecked `repo-add`) and the
\* [local-repo] stanza appended;
\* then the exclusions are applied and packages is assembled.
StageLocalRepo(w) ==
    /\ pc[w] = "stage"
    /\ LET aur == loc[w].aur_packages
           copied == SuccessfullyCopiedAur(aur, host.local_db, host.pkg_cache)
           failed == FailedAurPackages(aur, host.local_db, host.pkg_cache)
           staged == IF fs.profile
                     THEN fs.local_repo \cup (SeqToSet(copied) \ host.cp_fails)
                     ELSE {}
           excluded == config.excluded_packages
           repo_kept == IF excluded # {}
                        THEN WithoutExcluded(loc[w].repo_packages, excluded)
                        ELSE loc[w].repo_packages
           copied_kept == IF excluded # {}
                          THEN WithoutExcluded(copied, excluded)
                          ELSE copied
       IN  /\ fs' = [fs EXCEPT !.local_repo = staged,
                               !.repo_db = IF aur # <<>> /\ staged # {}
                                           THEN ~host.repo_add_fails ELSE @,
                               !.stanzas = IF aur # <<>> /\ staged # {}
                                           THEN @ + 1 ELSE @]
           /\ loc' = [loc EXCEPT ![w].repo_packages = repo_kept,
                                 ![w].successfully_copied_aur = copied_kept,
                                 ![w].failed_aur_packages = failed,
                                 ![w].packages = repo_kept \o copied_kept]
    /\ Goto(w, "manifest")
    /\ UNCHANGED << outside, host, config, proc, progress, outcomes, cancelled, gui >>

\* The GUI-required packages are added, _build_package_list rewrites
\* packages.x86_64 and the list read back is checked for the required
\* packages; progress 40.
BuildManifest(w) ==
    /\ pc[w] = "manifest"
    /\ LET excluded == config.excluded_packages
           packages == loc[w].packages
                       \o AddedGui(loc[w].packages, host.all_packages, excluded)
       IN  IF fs.pkg_file = NoFile
           THEN /\ Finish(w, FALSE, "exception")
                /\ loc' = [loc EXCEPT ![w].packages = packages]
                /\ UNCHANGED << fs, progress >>
           ELSE LET built == BuildPackageList(fs.pkg_file, packages, excluded)
                    missing_critical ==
                        required_packages \ SeqToSet(built.pkg_lines)
                IN  /\ fs' = [fs EXCEPT !.pkg_file = built.file]
                    /\ loc' = [loc EXCEPT ![w].packages = packages,
                                          ![w].pkg_lines = built.pkg_lines,
                                          ![w].pkg_count = built.pkg_count,
                                          ![w].small_warning =
                                              missing_critical = {}
                                              /\ TooSmall(built.pkg_count)]
                    /\ IF missing_critical # {}
                       THEN Finish(w, FALSE, "missing_critical")
                            /\ UNCHANGED progress
                       ELSE Goto(w, "customize") /\ EmitProgress(w, 40)
    /\ UNCHANGED << outside, host, config, proc, outcomes, cancelled, gui >>

\* The generated scripts, hostname and pkglist.txt are written into
\* airootfs; a failed write raises; progress 50.
CustomizeAirootfs(w) ==
    /\ pc[w] = "customize"
    /\ \E ok \in BOOLEAN :
         IF ok
         THEN /\ fs' = [fs EXCEPT !.pkglist = PkgListText(loc[w].pkg_lines)]
              /\ EmitProgress(w, 50)
              /\ Goto(w, "profiledef")
         ELSE /\ Finish(w, FALSE, "exception")
              /\ UNCHANGED << fs, progress >>
    /\ UNCHANGED << outside, host, config, loc, proc, outcomes, cancelled, gui >>

\* profiledef.sh is rewritten; a missing or empty file raises; progress 60.
WriteProfiledef(w) ==
    /\ pc[w] = "profiledef"
    /\ \E ok \in BOOLEAN :
         IF fs.profile /\ ok
         THEN Goto(w, "launch") /\ EmitProgress(w, 60)
         ELSE Finish(w, FALSE, "exception") /\ UNCHANGED progress
    /\ UNCHANGED << outside, host, config, fs, loc, proc, outcomes, cancelled, gui >>

\* self.process = subprocess.Popen(['mkarchiso', ...])
LaunchBuilder(w) ==
    /\ pc[w] = "launch"
    /\ \E ok \in BOOLEAN :
         IF ok
         THEN /\ proc' = [proc EXCEPT ![w].state = "running"]
              /\ Goto(w, "stream")
         ELSE /\ Finish(w, FALSE, "exception")
              /\ UNCHANGED proc
    /\ UNCHANGED << outside, host, config, fs, loc, progress, outcomes, cancelled, gui >>

\* One pass of `for line in self.process.stdout`.
ReadLine(w) ==
    /\ pc[w] = "stream"
    /\ proc[w].state = "running"
    /\ loc[w].lines_read < MaxLines
    /\ \E line \in BuilderLines :
         /\ loc' = [loc EXCEPT
                ![w].lines_read = @ + 1,
                ![w].line = line,
                ![w].line_emitted = IF MilestoneOf(line, 0) # 0
                                    THEN << MilestoneOf(line, 0) >> ELSE <<>>,
                ![w].line_log = IF IsFatalSignal(line)
                                THEN << line, << "[ERROR DETECTED]" >> \o line >>
                                ELSE << line >>,
                ![w].error_detected = @ \/ IsFatalSignal(line)]
         /\ EmitProgress(w, MilestoneOf(line, progress[w]))
    /\ UNCHANGED << outside, host, config, fs, pc, proc, fin, result, outcomes,
                    cancelled, gui >>

\* mkarchiso exits, by itself or on the SIGTERM of stop(), leaving what it
\* has produced of the image and of its payload.
BuilderExits(w) ==
    /\ proc[w].state = "running"
    /\ \E returncode \in (IF proc[w].signalled THEN { -15 } ELSE { 0, 1 }),
          iso \in { 0, 53687091, GiB, 2000000000 },
          squashfs \in { 0, 50000000, 900000000 } :
         /\ proc' = [proc EXCEPT ![w].state = "exited",
                                 ![w].returncode = returncode]
         /\ fs' = [fs EXCEPT !.iso = iso, !.squashfs = squashfs]
    /\ UNCHANGED << outside, host, config, pc, loc, progress, fin, result, outcomes,
                    cancelled, gui >>

\* Variant of AwaitBuilder that does not wait for mkarchiso to exit.
AwaitBuilderWithoutWait(w) ==
    /\ pc[w] = "stream"
    /\ proc[w].state # "none"
    /\ EmitProgress(w, 100)
    /\ Goto(w, "verify")
    /\ UNCHANGED << outside, host, config, fs, loc, proc, outcomes, cancelled, gui >>

\* The output stream has ended: self.process.wait(), then progress 100.
AwaitBuilder(w) ==
    /\ pc[w] = "stream"
    /\ proc[w].state = "exited"
    /\ EmitProgress(w, 100)
    /\ Goto(w, "verify")
    /\ UNCHANGED << outside, host, config, fs, loc, proc, outcomes, cancelled, gui >>

\* The image and its payload are looked up, `file` is run on an image found
\* (is_valid: its output names an ISO 9660 or bootable image; only logged),
\* and the outcome is emitted.
VerifyArtifacts(w) ==
    /\ pc[w] = "verify"
    /\ LET verdict == Verify(fs.iso, fs.squashfs, proc[w].returncode)
       IN  Finish(w, verdict.success, verdict.reason)
    /\ \E is_valid \in (IF fs.iso > 0 THEN BOOLEAN ELSE { FALSE }) :
         loc' = [loc EXCEPT ![w].iso_size = fs.iso,
                            ![w].squashfs_size = fs.squashfs,
                            ![w].is_valid = is_valid]
    /\ UNCHANGED << outside, host, config, fs, proc, progress, outcomes, cancelled, gui >>

\* ---------------------------------------------------------- ISOBuilderGUI

\* build_finished(success, message): the buttons, last_iso_path and, when
\* writing to USB is enabled with a valid device, start_usb_write.
BuildFinished(g, success) ==
    LET shown == [g EXCEPT !.build_btn = TRUE, !.stop_btn = FALSE]
    IN  IF ~success THEN shown
        ELSE IF g.usb_target = "valid"
             THEN [shown EXCEPT !.last_iso_path = TRUE,
                                !.build_btn = FALSE,
                                !.usb_writers = @ + 1]
             ELSE [shown EXCEPT !.last_iso_path = TRUE]

\* start_build, when no recent image is reused: a new ISOBuilderThread, the
\* session's w-th, is created, connected and started.
StartAttempt(w) ==
    /\ gui.build_btn
    /\ host.is_root
    /\ pc[w] = "idle"
    /\ \A v \in Attempts : v < w => pc[v] # "idle"
    /\ pc' = [pc EXCEPT ![w] = "start"]
    /\ gui' = [gui EXCEPT !.build_btn = FALSE, !.stop_btn = TRUE,
                          !.builder_thread = w]
    /\ UNCHANGED << outside, host, config, fs, loc, proc, progress, fin, result,
                    outcomes, cancelled >>

StartBuild == \E w \in Attempts : StartAttempt(w)

\* start_build, when find_existing_iso finds a recent image and the operator
\* answers Yes: no thread, build_finished(True, existing_iso) at once.
ReuseExistingIso ==
    /\ gui.build_btn
    /\ host.is_root
    /\ fs.iso > 0
    /\ gui' = BuildFinished([gui EXCEPT !.build_btn = FALSE, !.stop_btn = FALSE,
                                        !.last_iso_path = TRUE], TRUE)
    /\ UNCHANGED << outside, host, config, fs, pc, loc, proc, progress, fin, result,
                    outcomes, cancelled >>

\* stop_build: builder_thread.stop() terminates the subprocess if there is
\* one, then build_finished(False, "Stopped by user") is called directly.
StopBuild ==
    /\ gui.stop_btn
    /\ gui.builder_thread # 0
    /\ LET w == gui.builder_thread
       IN  /\ proc' = [proc EXCEPT ![w].signalled =
                          @ \/ proc[w].state = "running"]
           /\ cancelled' = [cancelled EXCEPT ![w] = TRUE]
           /\ outcomes' = [outcomes EXCEPT ![w] =
                              Append(@, [success |-> FALSE, reason |-> "stopped"])]
    /\ gui' = BuildFinished(gui, FALSE)
    /\ UNCHANGED << outside, host, config, fs, pc, loc, progress, fin, result >>

\* The queued finished_signal of attempt w reaches build_finished.
DeliverFinished(w) ==
    /\ fin[w] = "queued"
    /\ fin' = [fin EXCEPT ![w] = "delivered"]
    /\ outcomes' = [outcomes EXCEPT ![w] = Append(@, result[w])]
    /\ gui' = BuildFinished(gui, result[w].success)
    /\ UNCHANGED << outside, host, config, fs, pc, loc, proc, progress, result, cancelled >>

\* A USBWriterThread ends and usb_write_finished re-enables the build button.
UsbWriteFinished ==
    /\ gui.usb_writers > 0
    /\ gui' = [gui EXCEPT !.usb_writers = @ - 1, !.build_btn = TRUE]
    /\ UNCHANGED << outside, host, config, fs, pc, loc, proc, progress, fin, result,
                    outcomes, cancelled >>

\* ------------------------------------------------------- specifications

\* The worker's own steps.
WorkerStep(w) ==
    \/ RootCheck(w)
    \/ Cleanup(w)
    \/ CheckArchiso(w)
    \/ CopyProfile(w)
    \/ Classify(w)
    \/ StageLocalRepo(w)
    \/ BuildManifest(w)
    \/ CustomizeAirootfs(w)
    \/ WriteProfiledef(w)
    \/ LaunchBuilder(w)
    \/ ReadLine(w)
    \/ AwaitBuilder(w)
    \/ VerifyArtifacts(w)

\* A releng-like package list: a comment, two required packages, one more.
DefaultBase ==
    << << HASH, SP, "c" >>, << "base" >>, << "linux" >>, << "a" >> >>

\* The control surface after construction, on a host whose inventory
\* (`pacman -Qqe`) is a, gdm, linux, of which a is not in the sync
\* databases; archiso is installed as a dependency, or not at all.
Init ==
    /\ NoScriptRuns
    /\ host \in [ is_root : BOOLEAN,
                  source_profile : { "ok", "absent" },
                  base_profile : { DefaultBase },
                  all_packages : { << <<"a">>, <<"gdm">>, <<"linux">> >> },
                  sync_db : { { <<"gdm">>, <<"linux">> } },
                  local_db : { { <<"a">>, <<"gdm">>, <<"linux">> },
                               { <<"a">>, <<"archiso">>, <<"gdm">>, <<"linux">> } },
                  pkg_cache : { {}, { <<"a">> } },
                  cp_fails : { {}, { <<"a">> } },
                  repo_add_fails : { FALSE } ]
    /\ config \in [ excluded_packages : { {}, { <<"gdm">> } },
                    include_custom_repos : { TRUE } ]
    /\ fs = EmptyFs
    /\ InitControl

Next ==
    \/ \E w \in Attempts : WorkerStep(w)
    \/ \E w \in Attempts : BuilderExits(w)
    \/ \E w \in Attempts : DeliverFinished(w)
    \/ StartBuild
    \/ ReuseExistingIso
    \/ StopBuild
    \/ UsbWriteFinished

Spec == Init /\ [][Next]_vars

\* ------------------------------------- a session up to its first attempt

\* The control surface and the first ISOBuilderThread it starts.
NextFirst ==
    \/ WorkerStep(1)
    \/ BuilderExits(1)
    \/ DeliverFinished(1)
    \/ StartAttempt(1)
    \/ ReuseExistingIso
    \/ StopBuild
    \/ UsbWriteFinished

SpecFirst == Init /\ [][NextFirst]_vars

\* ------------------------------------- a session with a restarted build

\* The control surface on a host where the build can go ahead.
InitRestart ==
    /\ NoScriptRuns
    /\ host = [ is_root |-> TRUE,
                source_profile |-> "ok",
                base_profile |-> DefaultBase,
                all_packages |-> << <<"a">>, <<"gdm">>, <<"linux">> >>,
                sync_db |-> { <<"gdm">>, <<"linux">> },
                local_db |-> { <<"a">>, <<"archiso">>, <<"gdm">>, <<"linux">> },
                pkg_cache |-> { <<"a">> },
                cp_fails |-> {},
                repo_add_fails |-> FALSE ]
    /\ config = [ excluded_packages |-> {}, include_custom_repos |-> TRUE ]
    /\ fs = EmptyFs
    /\ InitControl

\* The operator starts, stops and starts again; the workers are followed
\* up to the written manifest.
NextRestart ==
    \/ StartBuild
    \/ StopBuild
    \/ \E w \in Attempts :
          \/ RootCheck(w)
          \/ Cleanup(w)
          \/ CheckArchiso(w)
          \/ CopyProfile(w)
          \/ Classify(w)
          \/ StageLocalRepo(w)
          \/ BuildManifest(w)
          \/ DeliverFinished(w)

SpecRestart == InitRestart /\ [][NextRestart]_vars

\* ---------------------------------------------- the manifest pipeline alone

\* Lines a base profile's package list is made of: required, ordinary and
\* GUI-required packages (one with blanks around it), a comment, a blank line.
BaseLineChoices ==
    { << "linux" >>, << "a" >>, << SP, "gdm", SP >>, << HASH, SP, "c" >>, <<>> }

BaseProfiles ==
    UNION { [1 .. n -> BaseLineChoices] : n \in 0 .. MaxBaseLines }

\* Names the inventory is drawn from: a required and a GUI-required package.
InventoryNames == { << "gdm" >>, << "linux" >> }

\* Names the exclusions are drawn from.
ExclusionNames == { << "a" >>, << "gdm" >>, << "linux" >> }

\* `pacman -Qqe`: the installed names in order, [''] when there are none.
Inventory(installed) ==
    IF installed = {} THEN << <<>> >> ELSE Sorted(installed)

\* One attempt, started by start_build, with the profile copied (progress
\* 30): every base list, inventory, classification, cache content and
\* exclusion set within the bounds.  Without include_custom_repos the local
\* database and the cache are not read, and are left empty.
InitManifest ==
    /\ NoScriptRuns
    /\ config \in [ excluded_packages : SUBSET ExclusionNames,
                    include_custom_repos : BOOLEAN ]
    /\ \E installed \in SUBSET InventoryNames :
       \E resolvable \in SUBSET installed :
       \E unlisted \in SUBSET (installed \ resolvable) :
       \E cached \in SUBSET (installed \ (resolvable \cup unlisted)) :
       \E base \in BaseProfiles \cup { NoFile } :
          /\ config.include_custom_repos \/ (unlisted = {} /\ cached = {})
          /\ host = [ is_root |-> TRUE,
                      source_profile |-> "ok",
                      base_profile |-> base,
                      all_packages |-> Inventory(installed),
                      sync_db |-> resolvable,
                      local_db |-> IF config.include_custom_repos
                                   THEN installed \ unlisted ELSE {},
                      pkg_cache |-> cached,
                      cp_fails |-> {},
                      repo_add_fails |-> FALSE ]
          /\ fs = [EmptyFs EXCEPT !.profile = TRUE, !.pkg_file = base]
    /\ pc = [w \in Attempts |-> IF w = 1 THEN "classify" ELSE "idle"]
    /\ loc = [w \in Attempts |-> InitLoc]
    /\ proc = [w \in Attempts |-> NoProcess]
    /\ progress = [w \in Attempts |-> IF w = 1 THEN 30 ELSE 0]
    /\ fin = [w \in Attempts |-> "none"]
    /\ result = [w \in Attempts |-> NoResult]
    /\ outcomes = [w \in Attempts |-> <<>>]
    /\ cancelled = [w \in Attempts |-> FALSE]
    /\ gui = [InitGui EXCEPT !.build_btn = FALSE, !.stop_btn = TRUE,
                             !.builder_thread = 1]

NextManifest ==
    \/ Classify(1)
    \/ StageLocalRepo(1)
    \/ BuildManifest(1)

SpecManifest == InitManifest /\ [][NextManifest]_vars

\* ------------------------------------- the build driver and verifier alone

\* One attempt about to launch mkarchiso (progress 60): the host lists a,
\* gdm and linux, of which a is outside the repositories and not in the
\* cache; nothing is excluded; the manifest is the one run() has built.
InitVerifier ==
    /\ NoScriptRuns
    /\ host = [ is_root |-> TRUE,
                source_profile |-> "ok",
                base_profile |-> DefaultBase,
                all_packages |-> << <<"a">>, <<"gdm">>, <<"linux">> >>,
                sync_db |-> { <<"gdm">>, <<"linux">> },
                local_db |-> { <<"a">>, <<"archiso">>, <<"gdm">>, <<"linux">> },
                pkg_cache |-> {},
                cp_fails |-> {},
                repo_add_fails |-> FALSE ]
    /\ config = [ excluded_packages |-> {}, include_custom_repos |-> TRUE ]
    /\ LET repo == RepoPackages(host.all_packages, host.sync_db)
           aur == AurPackages(host.all_packages, host.sync_db)
           failed == FailedAurPackages(aur, host.local_db, host.pkg_cache)
           packages == repo \o AddedGui(repo, host.all_packages, {})
           built == BuildPackageList(DefaultBase, packages, {})
           at_launch == [InitLoc EXCEPT !.repo_packages = repo,
                                        !.aur_packages = aur,
                                        !.failed_aur_packages = failed,
                                        !.packages = packages,
                                        !.pkg_lines = built.pkg_lines,
                                        !.pkg_count = built.pkg_count]
       IN  /\ fs = [EmptyFs EXCEPT !.profile = TRUE,
                                   !.pkg_file = built.file,
                                   !.pkglist = PkgListText(built.pkg_lines)]
           /\ loc = [w \in Attempts |-> IF w = 1 THEN at_launch ELSE InitLoc]
    /\ pc = [w \in Attempts |-> IF w = 1 THEN "launch" ELSE "idle"]
    /\ proc = [w \in Attempts |-> NoProcess]
    /\ progress = [w \in Attempts |-> IF w = 1 THEN 60 ELSE 0]
    /\ fin = [w \in Attempts |-> "none"]
    /\ result = [w \in Attempts |-> NoResult]
    /\ outcomes = [w \in Attempts |-> <<>>]
    /\ cancelled = [w \in Attempts |-> FALSE]
    /\ gui \in { [InitGui EXCEPT !.build_btn = FALSE, !.stop_btn = TRUE,
                                  !.builder_thread = 1,
                                  !.usb_target = target] :
                      target \in { "off", "valid" } }

NextVerifier ==
    \/ LaunchBuilder(1)
    \/ ReadLine(1)
    \/ BuilderExits(1)
    \/ AwaitBuilder(1)
    \/ VerifyArtifacts(1)
    \/ DeliverFinished(1)
    \/ StopBuild
    \/ UsbWriteFinished

SpecVerifier == InitVerifier /\ [][NextVerifier]_vars

\* ------------------------------------------ one attempt, left undisturbed

\* start_build has just started the first ISOBuilderThread; the operator
\* does nothing more.  include_custom_repos is either way.
InitPipeline ==
    /\ NoScriptRuns
    /\ host \in [ is_root : { TRUE },
                  source_profile : { "ok", "absent" },
                  base_profile : { DefaultBase, NoFile },
                  all_packages : { << <<"a">>, <<"gdm">>, <<"linux">> >> },
                  sync_db : { { <<"gdm">>, <<"linux">> } },
                  local_db : { { <<"a">>, <<"gdm">>, <<"linux">> },
                               { <<"a">>, <<"archiso">>, <<"gdm">>, <<"linux">> } },
                  pkg_cache : { {}, { <<"a">> } },
                  cp_fails : { {}, { <<"a">> } },
                  repo_add_fails : BOOLEAN ]
    /\ config \in [ excluded_packages : { {}, { <<"gdm">> }, SeqToSet(gui_must) },
                    include_custom_repos : BOOLEAN ]
    /\ fs = EmptyFs
    /\ pc = [w \in Attempts |-> IF w = 1 THEN "start" ELSE "idle"]
    /\ loc = [w \in Attempts |-> InitLoc]
    /\ proc = [w \in Attempts |-> NoProcess]
    /\ progress = [w \in Attempts |-> 0]
    /\ fin = [w \in Attempts |-> "none"]
    /\ result = [w \in Attempts |-> NoResult]
    /\ outcomes = [w \in Attempts |-> <<>>]
    /\ cancelled = [w \in Attempts |-> FALSE]
    /\ gui = [InitGui EXCEPT !.build_btn = FALSE, !.stop_btn = TRUE,
                             !.builder_thread = 1]

NextPipeline ==
    \/ WorkerStep(1)
    \/ BuilderExits(1)
    \/ DeliverFinished(1)

SpecPipeline == InitPipeline /\ [][NextPipeline]_vars

\* One attempt by root on a host where the releng profile and its package
\* list are there or not and archiso is installed or not.
InitAttempt ==
    /\ NoScriptRuns
    /\ host \in [ is_root : { TRUE },
                  source_profile : { "ok", "absent" },
                  base_profile : { DefaultBase, NoFile },
                  all_packages : { << <<"a">>, <<"gdm">>, <<"linux">> >> },
                  sync_db : { { <<"gdm">>, <<"linux">> } },
                  local_db : { { <<"a">>, <<"gdm">>, <<"linux">> },
                               { <<"a">>, <<"archiso">>, <<"gdm">>, <<"linux">> } },
                  pkg_cache : { { <<"a">> } },
                  cp_fails : { {} },
                  repo_add_fails : { FALSE } ]
    /\ config = [ excluded_packages |-> {}, include_custom_repos |-> TRUE ]
    /\ fs = EmptyFs
    /\ pc = [w \in Attempts |-> IF w = 1 THEN "start" ELSE "idle"]
    /\ loc = [w \in Attempts |-> InitLoc]
    /\ proc = [w \in Attempts |-> NoProcess]
    /\ progress = [w \in Attempts |-> 0]
    /\ fin = [w \in Attempts |-> "none"]
    /\ result = [w \in Attempts |-> NoResult]
    /\ outcomes = [w \in Attempts |-> <<>>]
    /\ cancelled = [w \in Attempts |-> FALSE]
    /\ gui = [InitGui EXCEPT !.build_btn = FALSE, !.stop_btn = TRUE,
                             !.builder_thread = 1]

\* run() leaves the manifest stage: _build_package_list has returned or
\* raised, which is the step BuildManifest.
ManifestReturns(w) ==
    /\ pc[w] = "manifest"
    /\ \E label \in { "customize", "done" } : pc' = [pc EXCEPT ![w] = label]

\* That attempt when the thread keeps running, every external command and
\* every call returns, and mkarchiso exits, which ends its output stream.
SpecAttemptFair ==
    /\ InitAttempt
    /\ [][NextPipeline]_vars
    /\ WF_vars(RootCheck(1))
    /\ WF_vars(Cleanup(1))
    /\ WF_vars(CheckArchiso(1))
    /\ WF_vars(CopyProfile(1))
    /\ WF_vars(Classify(1))
    /\ WF_vars(StageLocalRepo(1))
    /\ WF_pc(ManifestReturns(1))
    /\ WF_vars(CustomizeAirootfs(1))
    /\ WF_vars(WriteProfiledef(1))
    /\ WF_vars(LaunchBuilder(1))
    /\ WF_vars(ReadLine(1) \/ AwaitBuilder(1))
    /\ WF_vars(VerifyArtifacts(1))
    /\ WF_vars(BuilderExits(1))

\* ------------------------------------- the generated customize_airootfs.sh

\* The commands of customize_airootfs.sh in script order: the step of the
\* script each belongs to, the test of the `if` around it ("always" when
\* there is none), and whether a nonzero status of the command ends the
\* script under `set -euo pipefail`: not when `|| true` follows it, and not
\* for setup_user.sh, whose status is that of its closing echo.
CustomizeCommands ==
    << [ step |-> 1, cmd |-> "setup_user.sh", when |-> "setup_executable", fatal |-> FALSE ],
       [ step |-> 2, cmd |-> "mkdir -p DST", when |-> "skel_saved", fatal |-> TRUE ],
       [ step |-> 2, cmd |-> "rsync", when |-> "skel_saved", fatal |-> FALSE ],
       [ step |-> 2, cmd |-> "chown", when |-> "skel_saved", fatal |-> FALSE ],
       [ step |-> 3, cmd |-> "sed sudoers", when |-> "always", fatal |-> FALSE ],
       [ step |-> 4, cmd |-> "enable NetworkManager", when |-> "always", fatal |-> FALSE ],
       [ step |-> 5, cmd |-> "enable gdm", when |-> "gdm_installed", fatal |-> FALSE ],
       [ step |-> 5, cmd |-> "mkdir -p /etc/gdm", when |-> "gdm_installed", fatal |-> TRUE ],
       [ step |-> 5, cmd |-> "cat > custom.conf", when |-> "gdm_installed", fatal |-> TRUE ],
       [ step |-> 6, cmd |-> "ln graphical.target", when |-> "always", fatal |-> FALSE ] >>

\* The test of an `if` of the script in the environment of this run.
CustomizeTest(run, when) ==
    CASE when = "always" -> TRUE
      [] when = "setup_executable" -> run.setup_executable
      [] when = "skel_saved" -> run.skel_saved
      [] when = "gdm_installed" -> run.gdm_installed

\* The build session at rest, while a generated script runs in the image.
SessionIdle ==
    /\ host = [ is_root |-> TRUE,
                source_profile |-> "ok",
                base_profile |-> DefaultBase,
                all_packages |-> << <<"a">>, <<"gdm">>, <<"linux">> >>,
                sync_db |-> { <<"gdm">>, <<"linux">> },
                local_db |-> { <<"a">>, <<"archiso">>, <<"gdm">>, <<"linux">> },
                pkg_cache |-> { <<"a">> },
                cp_fails |-> {},
                repo_add_fails |-> FALSE ]
    /\ config = [ excluded_packages |-> {}, include_custom_repos |-> TRUE ]
    /\ fs = EmptyFs
    /\ pc = [w \in Attempts |-> "idle"]
    /\ loc = [w \in Attempts |-> InitLoc]
    /\ proc = [w \in Attempts |-> NoProcess]
    /\ progress = [w \in Attempts |-> 0]
    /\ fin = [w \in Attempts |-> "none"]
    /\ result = [w \in Attempts |-> NoResult]
    /\ outcomes = [w \in Attempts |-> <<>>]
    /\ cancelled = [w \in Attempts |-> FALSE]

\* bash starts the script in an image where setup_user.sh, the saved home
\* template and gdm are each there or not.
InitCustomize ==
    /\ customize \in [ at : { 1 }, ran : { {} }, failed : { {} },
                       exit : { "running" },
                       setup_executable : BOOLEAN, skel_saved : BOOLEAN,
                       gdm_installed : BOOLEAN ]
    /\ installer = NoInstallerRun
    /\ writer = NoWriter
    /\ profiledef = NoProfiledefRun
    /\ reuse = NoReuse
    /\ SessionIdle
    /\ gui = InitGui

\* The next command of the script: skipped when the `if` around it is
\* false; otherwise it runs and succeeds or fails, and a failure that
\* `set -e` sees ends the script with that status.
CustomizeCommand ==
    /\ customize.exit = "running"
    /\ customize.at \in DOMAIN CustomizeCommands
    /\ LET c == CustomizeCommands[customize.at]
       IN  IF ~CustomizeTest(customize, c.when)
           THEN customize' = [customize EXCEPT !.at = @ + 1]
           ELSE \E ok \in BOOLEAN :
                  customize' =
                     [customize EXCEPT
                        !.ran = @ \cup { c.step },
                        !.failed = IF ok THEN @ ELSE @ \cup { c.step },
                        !.at = IF ok \/ ~c.fatal THEN @ + 1 ELSE @,
                        !.exit = IF ok \/ ~c.fatal THEN @ ELSE "failed"]
    /\ UNCHANGED << session, installer, writer, profiledef, reuse >>

\* The closing echo: the script ends with status 0.
CustomizeDone ==
    /\ customize.exit = "running"
    /\ customize.at = Len(CustomizeCommands) + 1
    /\ customize' = [customize EXCEPT !.exit = "ok"]
    /\ UNCHANGED << session, installer, writer, profiledef, reuse >>

NextCustomize ==
    \/ CustomizeCommand
    \/ CustomizeDone

SpecCustomize == InitCustomize /\ [][NextCustomize]_vars

\* -------------------------------------------------- the generated install.sh

\* The states the installer goes through once the disk is confirmed.
InstallerOrder ==
    << "Partitioning", "Formatting", "Mounting", "Installing", "Configuring",
       "BootloaderWritten", "Done" >>

\* Variant of ConfirmationAccepted that ignores the case of what was typed.
ConfirmationAcceptedAnyCase(conf) == conf \in { "WIPE", "wipe" }

\* The test `[[ "$CONF" != "WIPE" ]]` of the typed confirmation.
ConfirmationAccepted(conf) == conf = "WIPE"

\* The commands of install.sh after its three checks, in script order, those
\* of the arch-chroot here-document included: the state of the installer
\* each belongs to, the test of the `if` around it, whether a nonzero status
\* ends the script (`set -euo pipefail` outside and inside the chroot; not
\* when `|| true` follows), whether it writes to the target disk, and
\* whether it can succeed: the script is written with
\* `blkid -s UUID -o value "{ROOT_PART}"`, a device name that does not
\* exist, for which blkid returns 2.
InstallerCommands ==
    << [ phase |-> "Partitioning", cmd |-> "sgdisk --zap-all", when |-> "always",
         fatal |-> TRUE, device |-> TRUE, can_succeed |-> TRUE ],
       [ phase |-> "Partitioning", cmd |-> "sgdisk -n 1", when |-> "always",
         fatal |-> TRUE, device |-> TRUE, can_succeed |-> TRUE ],
       [ phase |-> "Partitioning", cmd |-> "sgdisk -n 2", when |-> "always",
         fatal |-> TRUE, device |-> TRUE, can_succeed |-> TRUE ],
       [ phase |-> "Partitioning", cmd |-> "partprobe", when |-> "always",
         fatal |-> TRUE, device |-> FALSE, can_succeed |-> TRUE ],
       [ phase |-> "Formatting", cmd |-> "mkfs.fat", when |-> "always",
         fatal |-> TRUE, device |-> TRUE, can_succeed |-> TRUE ],
       [ phase |-> "Formatting", cmd |-> "mkfs.ext4", when |-> "always",
         fatal |-> TRUE, device |-> TRUE, can_succeed |-> TRUE ],
       [ phase |-> "Mounting", cmd |-> "mount root", when |-> "always",
         fatal |-> TRUE, device |-> TRUE, can_succeed |-> TRUE ],
       [ phase |-> "Mounting", cmd |-> "mkdir -p /mnt/boot", when |-> "always",
         fatal |-> TRUE, device |-> TRUE, can_succeed |-> TRUE ],
       [ phase |-> "Mounting", cmd |-> "mount boot", when |-> "always",
         fatal |-> TRUE, device |-> TRUE, can_succeed |-> TRUE ],
       [ phase |-> "Installing", cmd |-> "pacstrap minimal", when |-> "no_pkglist",
         fatal |-> TRUE, device |-> TRUE, can_succeed |-> TRUE ],
       [ phase |-> "Installing", cmd |-> "pacstrap pkglist", when |-> "pkglist",
         fatal |-> TRUE, device |-> TRUE, can_succeed |-> TRUE ],
       [ phase |-> "Installing", cmd |-> "genfstab", when |-> "always",
         fatal |-> TRUE, device |-> TRUE, can_succeed |-> TRUE ],
       [ phase |-> "Configuring", cmd |-> "chpasswd root", when |-> "always",
         fatal |-> TRUE, device |-> TRUE, can_succeed |-> TRUE ],
       [ phase |-> "Configuring", cmd |-> "ln localtime", when |-> "always",
         fatal |-> TRUE, device |-> TRUE, can_succeed |-> TRUE ],
       [ phase |-> "Configuring", cmd |-> "hwclock", when |-> "always",
         fatal |-> TRUE, device |-> FALSE, can_succeed |-> TRUE ],
       [ phase |-> "Configuring", cmd |-> "sed locale.gen", when |-> "always",
         fatal |-> FALSE, device |-> TRUE, can_succeed |-> TRUE ],
       [ phase |-> "Configuring", cmd |-> "locale-gen", when |-> "always",
         fatal |-> TRUE, device |-> TRUE, can_succeed |-> TRUE ],
       [ phase |-> "Configuring", cmd |-> "write locale.conf hostname hosts", when |-> "always",
         fatal |-> TRUE, device |-> TRUE, can_succeed |-> TRUE ],
       [ phase |-> "Configuring", cmd |-> "useradd", when |-> "always",
         fatal |-> FALSE, device |-> TRUE, can_succeed |-> TRUE ],
       [ phase |-> "Configuring", cmd |-> "chpasswd user", when |-> "always",
         fatal |-> TRUE, device |-> TRUE, can_succeed |-> TRUE ],
       [ phase |-> "Configuring", cmd |-> "usermod", when |-> "always",
         fatal |-> TRUE, device |-> TRUE, can_succeed |-> TRUE ],
       [ phase |-> "Configuring", cmd |-> "sed sudoers", when |-> "always",
         fatal |-> FALSE, device |-> TRUE, can_succeed |-> TRUE ],
       [ phase |-> "Configuring", cmd |-> "enable NetworkManager", when |-> "always",
         fatal |-> FALSE, device |-> TRUE, can_succeed |-> TRUE ],
       [ phase |-> "Configuring", cmd |-> "enable gdm", when |-> "gdm_installed",
         fatal |-> FALSE, device |-> TRUE, can_succeed |-> TRUE ],
       [ phase |-> "Configuring", cmd |-> "mkdir -p /etc/gdm", when |-> "gdm_installed",
         fatal |-> TRUE, device |-> TRUE, can_succeed |-> TRUE ],
       [ phase |-> "Configuring", cmd |-> "cat > custom.conf", when |-> "gdm_installed",
         fatal |-> TRUE, device |-> TRUE, can_succeed |-> TRUE ],
       [ phase |-> "BootloaderWritten", cmd |-> "bootctl install", when |-> "always",
         fatal |-> TRUE, device |-> TRUE, can_succeed |-> TRUE ],
       [ phase |-> "BootloaderWritten", cmd |-> "blkid {ROOT_PART}", when |-> "always",
         fatal |-> TRUE, device |-> FALSE, can_succeed |-> FALSE ],
       [ phase |-> "BootloaderWritten", cmd |-> "write loader.conf", when |-> "always",
         fatal |-> TRUE, device |-> TRUE, can_succeed |-> TRUE ],
       [ phase |-> "BootloaderWritten", cmd |-> "write arch.conf", when |-> "always",
         fatal |-> TRUE, device |-> TRUE, can_succeed |-> TRUE ],
       [ phase |-> "Done", cmd |-> "umount -R /mnt", when |-> "always",
         fatal |-> TRUE, device |-> TRUE, can_succeed |-> TRUE ] >>

\* The test of an `if` of the script in the environment of this run.
InstallerTest(run, when) ==
    CASE when = "always" -> TRUE
      [] when = "pkglist" -> run.pkglist
      [] when = "no_pkglist" -> ~run.pkglist
      [] when = "gdm_installed" -> run.gdm_installed

\* The operator starts install.sh in the live system: booted by UEFI or
\* not, with /root/pkglist.txt there or not, from a manifest with gdm or
\* without.
InitInstaller ==
    /\ installer \in [ pc : { "disk" }, at : { 1 }, exit : { "running" },
                       disk : { "none" }, conf : { "none" },
                       uefi : BOOLEAN, pkglist : BOOLEAN,
                       gdm_installed : BOOLEAN,
                       touched : { FALSE }, phases : { <<>> } ]
    /\ customize = NoCustomizeRun
    /\ writer = NoWriter
    /\ profiledef = NoProfiledefRun
    /\ reuse = NoReuse
    /\ SessionIdle
    /\ gui = InitGui

\* `read DISK` and the -b test: a block device, something else, or the
\* end of input, on which read returns nonzero and `set -e` ends the script.
InstallerChooseDisk ==
    /\ installer.exit = "running"
    /\ installer.pc = "disk"
    /\ \E disk \in { "block", "other", "eof" } :
          installer' =
             [installer EXCEPT
                !.disk = disk,
                !.pc = IF disk = "block" THEN "confirm" ELSE "ended",
                !.exit = IF disk = "block" THEN @ ELSE "failed"]
    /\ UNCHANGED << session, customize, writer, profiledef, reuse >>

\* `read CONF` and its comparison with WIPE; anything else is "Cancelled."
\* with status 0.
InstallerConfirm ==
    /\ installer.exit = "running"
    /\ installer.pc = "confirm"
    /\ \E conf \in { "WIPE", "wipe", "eof" } :
          installer' =
             [installer EXCEPT
                !.conf = conf,
                !.pc = IF ConfirmationAccepted(conf) THEN "uefi" ELSE "ended",
                !.exit = IF ConfirmationAccepted(conf) THEN @
                         ELSE IF conf = "eof" THEN "failed" ELSE "cancelled"]
    /\ UNCHANGED << session, customize, writer, profiledef, reuse >>

\* The test for /sys/firmware/efi/efivars.
InstallerCheckUefi ==
    /\ installer.exit = "running"
    /\ installer.pc = "uefi"
    /\ installer' =
          [installer EXCEPT
             !.pc = IF installer.uefi THEN "commands" ELSE "ended",
             !.exit = IF installer.uefi THEN @ ELSE "failed"]
    /\ UNCHANGED << session, customize, writer, profiledef, reuse >>

\* The next command: skipped when the `if` around it is false; otherwise
\* it runs, the installer is in the command's state, the disk is written
\* to if the command does that, and a failure `set -e` sees ends the
\* script.  After the last command the script ends with status 0.
InstallerCommand ==
    /\ installer.exit = "running"
    /\ installer.pc = "commands"
    /\ LET c == InstallerCommands[installer.at]
           last == installer.at = Len(InstallerCommands)
           entered == IF installer.phases # <<>>
                         /\ installer.phases[Len(installer.phases)] = c.phase
                      THEN installer.phases
                      ELSE Append(installer.phases, c.phase)
       IN  IF ~InstallerTest(installer, c.when)
           THEN installer' = [installer EXCEPT !.at = @ + 1]
           ELSE \E ok \in (IF c.can_succeed THEN BOOLEAN ELSE { FALSE }) :
                  LET goes_on == ok \/ ~c.fatal
                  IN  installer' =
                         [installer EXCEPT
                            !.phases = entered,
                            !.touched = @ \/ c.device,
                            !.at = IF goes_on /\ ~last THEN @ + 1 ELSE @,
                            !.pc = IF goes_on /\ ~last THEN @ ELSE "ended",
                            !.exit = IF ~goes_on THEN "failed"
                                     ELSE IF last THEN "ok" ELSE @]
    /\ UNCHANGED << session, customize, writer, profiledef, reuse >>

NextInstaller ==
    \/ InstallerChooseDisk
    \/ InstallerConfirm
    \/ InstallerCheckUefi
    \/ InstallerCommand

SpecInstaller == InitInstaller /\ [][NextInstaller]_vars

\* ------------------------------------------------------ the media write

\* Lines dd prints with status=progress: the running count, the two record
\* counts and the closing summary, and an error.
DdLines ==
    { << "4194304", "bytes", "(4.2", "MB,", "4.0", "MiB)", "copied,", "1", "s" >>,
      << "256+0", "records", "in" >>,
      << "256+0", "records", "out" >>,
      << "dd:", "error", "writing" >> }

\* The value a dd line makes USBWriterThread.run emit; `current` (no
\* emission) when the line matches neither test.
WriterMilestoneOf(line, current) ==
    IF HasPhrase(<< "records", "in" >>, line) \/ HasPhrase(<< "records", "out" >>, line)
    THEN 60
    ELSE IF Has("copied", Lower(line)) THEN 80
    ELSE current

\* finished_signal of the writer; run() returns.
WriterFinish(success, reason) ==
    [writer EXCEPT !.pc = "done", !.fin = "queued",
                   !.result = [ success |-> success, reason |-> reason ]]

\* start_usb_write has started a USBWriterThread for the image just built,
\* as root or not, on a device node that exists or not.
InitWriter ==
    /\ writer \in [ pc : { "start" }, is_root : BOOLEAN, device_exists : BOOLEAN,
                    progress : { 0 }, lines_read : { 0 }, line : { <<>> },
                    dd : { "none" }, returncode : { 0 }, fin : { "none" },
                    result : { NoResult }, commands : { {} } ]
    /\ customize = NoCustomizeRun
    /\ installer = NoInstallerRun
    /\ profiledef = NoProfiledefRun
    /\ reuse = NoReuse
    /\ SessionIdle
    /\ gui = [InitGui EXCEPT !.build_btn = FALSE, !.last_iso_path = TRUE,
                             !.usb_target = "valid", !.usb_writers = 1]

\* The root and device checks, the size of the image (getsize raises when
\* the image is gone), progress 10.
WriterCheck ==
    /\ writer.pc = "start"
    /\ IF ~writer.is_root THEN writer' = WriterFinish(FALSE, "root_required")
       ELSE IF ~writer.device_exists
            THEN writer' = WriterFinish(FALSE, "no_device")
       ELSE \E ok \in BOOLEAN :
              writer' = IF ok
                        THEN [writer EXCEPT !.pc = "unmount", !.progress = 10]
                        ELSE WriterFinish(FALSE, "exception")
    /\ UNCHANGED << session, customize, installer, profiledef, reuse >>

\* The partitions are unmounted (unchecked; run_command raises when umount
\* cannot be started), progress 20.
WriterUnmount ==
    /\ writer.pc = "unmount"
    /\ \E ok \in BOOLEAN :
          writer' = IF ok
                    THEN [writer EXCEPT !.pc = "launch", !.progress = 20,
                                        !.commands = @ \cup { "umount" }]
                    ELSE WriterFinish(FALSE, "exception")
    /\ UNCHANGED << session, customize, installer, profiledef, reuse >>

\* subprocess.Popen(['dd', ...]); it raises when dd cannot be started.
WriterLaunch ==
    /\ writer.pc = "launch"
    /\ \E ok \in BOOLEAN :
          writer' = IF ok
                    THEN [writer EXCEPT !.pc = "stream", !.dd = "running",
                                        !.commands = @ \cup { "dd" }]
                    ELSE WriterFinish(FALSE, "exception")
    /\ UNCHANGED << session, customize, installer, profiledef, reuse >>

\* One pass of `for line in self.process.stdout`: a line dd has written,
\* read while dd runs or from the pipe after it has exited.
WriterReadLine ==
    /\ writer.pc = "stream"
    /\ writer.dd # "none"
    /\ writer.lines_read < MaxDdLines
    /\ \E line \in DdLines :
          writer' = [writer EXCEPT
                        !.lines_read = @ + 1,
                        !.line = line,
                        !.progress = WriterMilestoneOf(line, @)]
    /\ UNCHANGED << session, customize, installer, profiledef, reuse >>

\* dd exits.
WriterDdExits ==
    /\ writer.dd = "running"
    /\ \E returncode \in { 0, 1 } :
          writer' = [writer EXCEPT !.dd = "exited", !.returncode = returncode]
    /\ UNCHANGED << session, customize, installer, profiledef, reuse >>

\* The stream has ended: process.wait(), then progress 100 and success
\* when dd returned 0, failure otherwise.
WriterAwait ==
    /\ writer.pc = "stream"
    /\ writer.dd = "exited"
    /\ writer' = IF writer.returncode = 0
                 THEN [WriterFinish(TRUE, "written") EXCEPT !.progress = 100]
                 ELSE WriterFinish(FALSE, "write_failed")
    /\ UNCHANGED << session, customize, installer, profiledef, reuse >>

\* usb_write_finished, run by the GUI thread for the queued signal.
WriterDeliverFinished ==
    /\ writer.fin = "queued"
    /\ writer' = [writer EXCEPT !.fin = "delivered"]
    /\ gui' = [gui EXCEPT !.usb_writers = @ - 1, !.build_btn = TRUE]
    /\ UNCHANGED << host, config, fs, pc, loc, proc, progress, fin, result,
                    outcomes, cancelled, customize, installer, profiledef,
                    reuse >>

NextWriter ==
    \/ WriterDeliverFinished
    \/ WriterCheck
    \/ WriterUnmount
    \/ WriterLaunch
    \/ WriterReadLine
    \/ WriterDdExits
    \/ WriterAwait

SpecWriter == InitWriter /\ [][NextWriter]_vars

\* ------------------------------------------- the profile definition rewrite

NL == "\n"
DQ == "\""

\* The keys run() overwrites in profiledef.sh.
ProfiledefKeys ==
    { "iso_name=", "iso_label=", "iso_publisher=", "iso_application=",
      "pacman_conf=" }

\* str.strip() on a line as readlines() returns it: blanks and the line
\* terminator go from both ends.
RECURSIVE LineStrip(_)
LineStrip(line) ==
    IF line # <<>> /\ Head(line) \in { SP, NL } THEN LineStrip(Tail(line))
    ELSE IF line # <<>> /\ line[Len(line)] \in { SP, NL }
         THEN LineStrip(SubSeq(line, 1, Len(line) - 1))
         ELSE line

\* `stripped.startswith(key)`
StartsWithKey(line, key) ==
    LineStrip(line) # <<>> /\ Head(LineStrip(line)) = key

\* Variant of UpdatedLine that leaves the publisher line as it is.
UpdatedLineKeepsPublisher(line, iso_name, iso_label) ==
    IF StartsWithKey(line, "iso_name=")
    THEN << "iso_name=", DQ, iso_name, DQ, NL >>
    ELSE IF StartsWithKey(line, "iso_label=")
    THEN << "iso_label=", DQ, iso_label, DQ, NL >>
    ELSE IF StartsWithKey(line, "iso_application=")
    THEN << "iso_application=", DQ, "Custom Arch Linux Live/Install", DQ, NL >>
    ELSE IF StartsWithKey(line, "pacman_conf=")
    THEN << "pacman_conf=", DQ, "pacman.conf", DQ, NL >>
    ELSE line

\* What the loop over the lines appends to updated_lines for one line.
UpdatedLine(line, iso_name, iso_label) ==
    IF StartsWithKey(line, "iso_name=")
    THEN << "iso_name=", DQ, iso_name, DQ, NL >>
    ELSE IF StartsWithKey(line, "iso_label=")
    THEN << "iso_label=", DQ, iso_label, DQ, NL >>
    ELSE IF StartsWithKey(line, "iso_publisher=")
    THEN << "iso_publisher=", DQ, "Custom Arch Linux", DQ, NL >>
    ELSE IF StartsWithKey(line, "iso_application=")
    THEN << "iso_application=", DQ, "Custom Arch Linux Live/Install", DQ, NL >>
    ELSE IF StartsWithKey(line, "pacman_conf=")
    THEN << "pacman_conf=", DQ, "pacman.conf", DQ, NL >>
    ELSE line

UpdatedLines(lines, iso_name, iso_label) ==
    [i \in DOMAIN lines |-> UpdatedLine(lines[i], iso_name, iso_label)]

\* Lines a profiledef.sh may hold, with their terminator.
ProfiledefLines ==
    { << "#!/usr/bin/env bash", NL >>,
      << "iso_name=", DQ, "archlinux", DQ, NL >>,
      << SP, "iso_label=", DQ, "ARCH_2026", DQ, NL >>,
      << "iso_publisher=", DQ, "Arch Linux", DQ, NL >>,
      << "iso_application=", DQ, "Arch Linux Live/Rescue DVD", DQ, NL >>,
      << "pacman_conf=", DQ, "pacman.conf", DQ, NL >>,
      << HASH, SP, "iso_name=", DQ, "old", DQ, NL >>,
      << "install_dir=", DQ, "arch", DQ, NL >>,
      << NL >> }

\* The same lines as the last line of a file without a final terminator.
Unterminated(line) == SubSeq(line, 1, Len(line) - 1)

\* The files of at most MaxProfiledefLines lines: every line but the last
\* is terminated, the last one is terminated or not.
ProfiledefFiles ==
    UNION { { f \in [1 .. n -> ProfiledefLines
                               \cup { Unterminated(l) : l \in ProfiledefLines \ { << NL >> } }] :
                \A i \in 1 .. (n - 1) : f[i] \in ProfiledefLines } :
            n \in 0 .. MaxProfiledefLines }

\* A profile left by an earlier build that the cleanup did not remove.
StaleProfiledef ==
    << << "iso_name=", DQ, "earlier", DQ, NL >>,
       << "install_dir=", DQ, "stale", DQ, NL >> >>

\* run() reaches the rewriting with the releng profiledef.sh there or not,
\* and with profile/profiledef.sh its fresh copy, a stale file, or absent.
InitProfiledef ==
    /\ \E original \in ProfiledefFiles \cup { NoFile },
          file \in { "copy", "stale", "absent" },
          iso_name \in { "custom-arch" }, iso_label \in { "CUSTOM_ARCH" } :
         profiledef =
            [ pc |-> "exists",
              original |-> original,
              file |-> CASE file = "copy" -> original
                         [] file = "stale" -> StaleProfiledef
                         [] OTHER -> NoFile,
              iso_name |-> iso_name, iso_label |-> iso_label,
              lines |-> <<>>, raised |-> "none" ]
    /\ customize = NoCustomizeRun
    /\ installer = NoInstallerRun
    /\ writer = NoWriter
    /\ reuse = NoReuse
    /\ SessionIdle
    /\ gui = InitGui

\* `if not os.path.exists(profiledef): raise FileNotFoundError`
ProfiledefExists ==
    /\ profiledef.pc = "exists"
    /\ profiledef' =
          IF profiledef.file = NoFile
          THEN [profiledef EXCEPT !.pc = "done", !.raised = "FileNotFoundError"]
          ELSE [profiledef EXCEPT !.pc = "read"]
    /\ UNCHANGED << session, customize, installer, writer, reuse >>

\* readlines() of the releng original when it exists, else of the profile's
\* file.
ProfiledefRead ==
    /\ profiledef.pc = "read"
    /\ profiledef' =
          [profiledef EXCEPT
             !.pc = "write",
             !.lines = IF profiledef.original # NoFile
                       THEN profiledef.original ELSE profiledef.file]
    /\ UNCHANGED << session, customize, installer, writer, reuse >>

\* The loop over the lines, writelines(updated_lines) and the check that the
\* file written is not empty.
ProfiledefWrite ==
    /\ profiledef.pc = "write"
    /\ LET updated_lines == UpdatedLines(profiledef.lines, profiledef.iso_name,
                                         profiledef.iso_label)
       IN  profiledef' =
              [profiledef EXCEPT
                 !.pc = "done",
                 !.file = updated_lines,
                 !.raised = IF updated_lines = <<>> THEN "IOError" ELSE "none"]
    /\ UNCHANGED << session, customize, installer, writer, reuse >>

NextProfiledef ==
    \/ ProfiledefExists
    \/ ProfiledefRead
    \/ ProfiledefWrite

SpecProfiledef == InitProfiledef /\ [][NextProfiledef]_vars

\* ------------------------------------------------- reuse of a recent image

\* 24 hours in seconds (hours_old = iso_age / 3600 compared with 24).
DaySeconds == 86400

\* Path(output_dir).glob(f'{iso_name}*.iso') on a file name.
GlobIso(name, iso_name) ==
    Len(name) >= 2 /\ Head(name) = iso_name /\ name[Len(name)] = ".iso"

\* Variant of FindExistingIso without the test of the age.
FindExistingIsoAnyAge(images, iso_name) ==
    LET iso_files == { f \in images : GlobIso(f.name, iso_name) }
        most_recent == { f \in iso_files : \A g \in iso_files : f.age <= g.age }
    IN  IF iso_files = {} THEN { NoImage } ELSE most_recent

\* find_existing_iso: what it may return, NoImage for None. Files with the
\* same modification time are in the order of the directory listing.
FindExistingIso(images, iso_name) ==
    LET iso_files == { f \in images : GlobIso(f.name, iso_name) }
        most_recent == { f \in iso_files : \A g \in iso_files : f.age <= g.age }
    IN  IF iso_files = {} THEN { NoImage }
        ELSE { IF f.age < DaySeconds THEN f ELSE NoImage : f \in most_recent }

\* Files output_dir may hold, by name and by seconds since modification.
ImageChoices ==
    [ name : { << "custom-arch", "-2026.11", ".iso" >>,
               << "custom-arch", "-2026.10", ".iso" >>,
               << "other", ".iso" >>,
               << "custom-arch", ".iso", ".part" >> },
      age : { 0, DaySeconds - 1, DaySeconds, DaySeconds + 3600 } ]

\* The directories an earlier build left behind.
EarlierFs ==
    [EmptyFs EXCEPT !.profile = TRUE, !.pkg_file = DefaultBase,
                    !.pkglist = << << "base" >>, << "linux" >> >>,
                    !.iso = GiB, !.squashfs = GiB]

\* The operator is about to click Build, root or not, with at most two
\* files in output_dir beside what an earlier build left.
InitReuse ==
    /\ \E images \in SUBSET ImageChoices :
         /\ Cardinality(images) <= 2
         /\ \A f, g \in images : f.name = g.name => f = g
         /\ reuse = [NoReuse EXCEPT !.pc = "idle", !.images = images]
    /\ customize = NoCustomizeRun
    /\ installer = NoInstallerRun
    /\ writer = NoWriter
    /\ profiledef = NoProfiledefRun
    /\ host \in [ is_root : BOOLEAN,
                  source_profile : { "ok" },
                  base_profile : { DefaultBase },
                  all_packages : { << <<"a">>, <<"gdm">>, <<"linux">> >> },
                  sync_db : { { <<"gdm">>, <<"linux">> } },
                  local_db : { { <<"a">>, <<"archiso">>, <<"gdm">>, <<"linux">> } },
                  pkg_cache : { { <<"a">> } },
                  cp_fails : { {} },
                  repo_add_fails : { FALSE } ]
    /\ config = [ excluded_packages |-> {}, include_custom_repos |-> TRUE ]
    /\ fs = EarlierFs
    /\ InitControl
    /\ \E usb_target \in { "off", "valid" } :
         gui = [InitGui EXCEPT !.usb_target = usb_target]

\* start_build as a whole: the root check, find_existing_iso, the question
\* and its reply, then either build_finished(True, existing_iso) or a new
\* ISOBuilderThread.
StartBuildOrReuse ==
    /\ reuse.pc = "idle"
    /\ gui.build_btn
    /\ IF ~host.is_root
       THEN /\ reuse' = [reuse EXCEPT !.pc = "refused"]
            /\ UNCHANGED << pc, gui >>
       ELSE \E existing_iso \in FindExistingIso(reuse.images, "custom-arch"),
               reply \in { "Yes", "No", "Cancel" } :
              IF existing_iso # NoImage /\ reply = "Cancel"
              THEN /\ reuse' = [reuse EXCEPT !.pc = "cancelled",
                                            !.existing_iso = existing_iso,
                                            !.reply = reply]
                   /\ UNCHANGED << pc, gui >>
              ELSE IF existing_iso # NoImage /\ reply = "Yes"
              THEN /\ reuse' = [reuse EXCEPT
                                  !.pc = "reused",
                                  !.existing_iso = existing_iso,
                                  !.reply = reply,
                                  !.finished = Append(@,
                                      [ success |-> TRUE,
                                        message |-> existing_iso.name ])]
                   /\ gui' = BuildFinished(
                                [gui EXCEPT !.build_btn = FALSE,
                                            !.stop_btn = FALSE,
                                            !.last_iso_path = TRUE], TRUE)
                   /\ UNCHANGED pc
              ELSE /\ reuse' = [reuse EXCEPT
                                  !.pc = "building",
                                  !.existing_iso = existing_iso,
                                  !.reply = IF existing_iso # NoImage
                                            THEN reply ELSE "none"]
                   /\ pc' = [pc EXCEPT ![1] = "start"]
                   /\ gui' = [gui EXCEPT !.build_btn = FALSE, !.stop_btn = TRUE,
                                         !.builder_thread = 1]
    /\ UNCHANGED << host, config, fs, loc, proc, progress, fin, result, outcomes,
                    cancelled, customize, installer, writer, profiledef >>

\* The click and the first steps of the worker it may start.
NextReuse ==
    \/ StartBuildOrReuse
    \/ RootCheck(1)
    \/ Cleanup(1)
    \/ UsbWriteFinished

SpecReuse == InitReuse /\ [][NextReuse]_vars

\* ------------------------------------------ the two workers, root or not

\* An ISOBuilderThread and a USBWriterThread have each been started, by a
\* process that is root or not, over the directories of an earlier build.
InitStarted ==
    /\ host \in [ is_root : BOOLEAN,
                  source_profile : { "ok" },
                  base_profile : { DefaultBase },
                  all_packages : { << <<"a">>, <<"gdm">>, <<"linux">> >> },
                  sync_db : { { <<"gdm">>, <<"linux">> } },
                  local_db : { { <<"a">>, <<"gdm">>, <<"linux">> },
                               { <<"a">>, <<"archiso">>, <<"gdm">>, <<"linux">> } },
                  pkg_cache : { { <<"a">> } },
                  cp_fails : { {} },
                  repo_add_fails : { FALSE } ]
    /\ config = [ excluded_packages |-> {}, include_custom_repos |-> TRUE ]
    /\ fs = EarlierFs
    /\ pc = [w \in Attempts |-> IF w = 1 THEN "start" ELSE "idle"]
    /\ loc = [w \in Attempts |-> InitLoc]
    /\ proc = [w \in Attempts |-> NoProcess]
    /\ progress = [w \in Attempts |-> 0]
    /\ fin = [w \in Attempts |-> "none"]
    /\ result = [w \in Attempts |-> NoResult]
    /\ outcomes = [w \in Attempts |-> <<>>]
    /\ cancelled = [w \in Attempts |-> FALSE]
    /\ gui = [InitGui EXCEPT !.build_btn = FALSE, !.stop_btn = TRUE,
                             !.builder_thread = 1, !.last_iso_path = TRUE,
                             !.usb_writers = 1]
    /\ \E device_exists \in BOOLEAN :
         writer = [NoWriter EXCEPT !.pc = "start",
                                   !.is_root = host.is_root,
                                   !.device_exists = device_exists]
    /\ customize = NoCustomizeRun
    /\ installer = NoInstallerRun
    /\ profiledef = NoProfiledefRun
    /\ reuse = NoReuse

\* The first steps of the build worker and the whole media write.
NextStarted ==
    \/ RootCheck(1)
    \/ Cleanup(1)
    \/ CheckArchiso(1)
    \/ DeliverFinished(1)
    \/ WriterDeliverFinished
    \/ WriterCheck
    \/ WriterUnmount
    \/ WriterLaunch
    \/ WriterReadLine
    \/ WriterDdExits
    \/ WriterAwait

SpecStarted == InitStarted /\ [][NextStarted]_vars

\* ------------------------------------------------------------------ claims

\* Attempt w has had its manifest written by _build_package_list and passed
\* (or failed) the check for required packages that follows it.
ManifestBuilt(w) ==
    \/ pc[w] = "customize"
    \/ pc[w] = "done" /\ result[w].reason = "missing_critical"

\* The package names of the file now at profile/packages.x86_64.
ManifestOnDisk == SeqToSet(ReRead(fs.pkg_file))

\* The package names of the base profile the attempt started from.
BaseNames == SeqToSet(BasePackages(host.base_profile))

\* C1: whatever the base profile, the candidates and the exclusions E, the
\* manifest written and the list returned hold every required package, only
\* E minus the required packages is applied to the base list (every other
\* base package stays), and the check for missing critical packages in run()
\* never raises.
C1_RequiredAlwaysInManifest ==
    \A w \in Attempts :
        /\ result[w].reason # "missing_critical"
        /\ ManifestBuilt(w) =>
              /\ required_packages \subseteq SeqToSet(loc[w].pkg_lines)
              /\ required_packages \subseteq ManifestOnDisk
              /\ \A pkg \in BaseNames :
                    pkg \in ManifestOnDisk
                    <=> pkg \notin (config.excluded_packages \ required_packages)

\* C1 witness: a manifest built from a base list that names linux while the
\* operator excludes linux (a required package) and gdm.
C1_Witness ==
    /\ ManifestBuilt(1)
    /\ << "linux" >> \in BaseNames
    /\ { << "linux" >>, << "gdm" >> } \subseteq config.excluded_packages

\* C2: no name of E minus the required packages is in the written manifest,
\* whether it came from the base list, the inventory or the GUI-required
\* packages.
C2_ExcludedNeverInManifest ==
    \A w \in Attempts :
        ManifestBuilt(w) =>
            LET effective == config.excluded_packages \ required_packages
            IN  /\ SeqToSet(loc[w].pkg_lines) \cap effective = {}
                /\ ManifestOnDisk \cap effective = {}

\* C2 witness: a manifest built while the operator excludes a, which the
\* base list names, and gdm, which is installed and in the sync databases.
C2_Witness ==
    /\ ManifestBuilt(1)
    /\ { << "a" >>, << "gdm" >> } \subseteq config.excluded_packages
    /\ << "a" >> \in BaseNames
    /\ << "gdm" >> \in SeqToSet(host.all_packages) \cap host.sync_db

\* C3: the package lines read back from a written manifest never name a
\* package twice.
C3_NoDuplicateNames ==
    \A w \in Attempts :
        ManifestBuilt(w) =>
            Cardinality(SeqToSet(loc[w].pkg_lines)) = Len(loc[w].pkg_lines)

\* A non-repository package of attempt w for which the cache glob found no
\* artifact.
Unlocated(w, pkg) ==
    /\ config.include_custom_repos
    /\ pkg \in SeqToSet(loc[w].aur_packages)
    /\ GlobMatches(pkg, host.pkg_cache) = {}

\* C4: a non-repository package whose artifact is not in the cache never
\* appears in the final manifest, even when the base profile lists it or it
\* is a required or GUI-required package.
C4_UnlocatedNeverInManifest ==
    \A w \in Attempts :
        ManifestBuilt(w) =>
            \A pkg \in InventoryNames :
                Unlocated(w, pkg) => pkg \notin SeqToSet(loc[w].pkg_lines)

\* C5: the values emitted on progress_signal in one attempt never decrease
\* and lie in 0 .. 100.
C5_ProgressNeverDecreases ==
    [][\A w \in Attempts :
          progress'[w] >= progress[w] /\ progress'[w] \in 0 .. 100]_vars

\* C6: build_finished is called exactly once per attempt: never twice, and
\* once the worker's finished_signal is delivered, once.
C6_ExactlyOneOutcome ==
    \A w \in Attempts :
        /\ Len(outcomes[w]) <= 1
        /\ fin[w] = "delivered" => Len(outcomes[w]) = 1

\* C7: an attempt the operator has cancelled reports only "Stopped by user":
\* never the failed exit code of the subprocess, never success.
C7_CancelledReportsOnlyStopped ==
    \A w \in Attempts :
        cancelled[w] =>
            \A i \in DOMAIN outcomes[w] :
                /\ outcomes[w][i].reason # "exit_code"
                /\ ~outcomes[w][i].success

\* C8: once an attempt is cancelled its worker performs no further pipeline
\* stage and never launches the builder afterwards.
C8_CancelledWorkerStops ==
    [][\A w \in Attempts :
          cancelled[w] =>
              /\ proc[w].state = "none" => proc'[w].state = "none"
              /\ pc'[w] = pc[w]]_vars

\* Attempt w has been through the verifier: progress 100 is emitted only
\* once the builder has exited, and run() has returned.
Verified(w) == pc[w] = "done" /\ progress[w] = 100

\* C9 as claimed: with no image in the output directory the outcome is the
\* failure "ISO file not found" for every exit code.
C9_NoImageIsArtifactMissing ==
    \A w \in Attempts :
        Verified(w) /\ loc[w].iso_size = 0 =>
            result[w] = [ success |-> FALSE, reason |-> "iso_not_found" ]

\* C9 as amended: with no image in the output directory the outcome is never
\* success; it is the failure "ISO file not found" when the builder exited
\* with 0 and the failure "Build process failed with exit code N" otherwise.
C9_NoImageNeverSuccess ==
    \A w \in Attempts :
        Verified(w) /\ loc[w].iso_size = 0 =>
            /\ ~result[w].success
            /\ result[w].reason =
                  IF proc[w].returncode = 0 THEN "iso_not_found" ELSE "exit_code"

\* C9 witness: the builder exited with a nonzero code, no image was found
\* and the attempt ended with the exit-code failure.
C9_Witness ==
    /\ Verified(1)
    /\ loc[1].iso_size = 0
    /\ proc[1].returncode = 1
    /\ result[1].reason = "exit_code"

\* C10: with an image found and no payload located the outcome is success
\* exactly when the image is larger than 1 GiB, and the verification failure
\* otherwise, an image of exactly 1 GiB included.
C10_NoPayloadDecidedBySize ==
    \A w \in Attempts :
        Verified(w) /\ loc[w].iso_size > 0 /\ loc[w].squashfs_size = 0 =>
            /\ result[w].success <=> loc[w].iso_size > GiB
            /\ ~result[w].success => result[w].reason = "verification_failed"

\* C11: with an image found, success or failure is a function of the image
\* size and of whether a payload was located; the exit code, the errors seen
\* in the builder's output and the file-type signature do not enter it.
C11_OutcomeOnlyFromSizes ==
    \A w \in Attempts :
        Verified(w) /\ loc[w].iso_size > 0 =>
            (result[w].success
                <=> (loc[w].squashfs_size > 0 \/ loc[w].iso_size >= GiB))

\* C11 witness: an image of 2 GB without payload is accepted although the
\* builder exited with 1, its output held a fatal line and `file` did not
\* recognise the image.
C11_Witness ==
    /\ Verified(1)
    /\ loc[1].iso_size = 2000000000
    /\ loc[1].squashfs_size = 0
    /\ proc[1].returncode = 1
    /\ loc[1].error_detected
    /\ ~loc[1].is_valid
    /\ result[1].success

\* The position of a step of run() in the order the code runs them.
StageRank(label) ==
    LET order == << "start", "cleanup", "archiso", "profile", "classify",
                    "stage", "manifest", "customize", "profiledef", "launch",
                    "stream", "verify" >>
    IN  CHOOSE i \in DOMAIN order : order[i] = label

\* Attempt w is between the start and the end of run().
InRun(w) == pc[w] \notin { "idle", "done" }

\* C12 as claimed: the manifest is written before the non-repository
\* artifacts are staged: while run() is under way, artifacts in the local
\* repository imply that _build_package_list has returned.
C12_ManifestBeforeStaging ==
    \A w \in Attempts :
        InRun(w) /\ fs.local_repo # {} => loc[w].pkg_count > 0

\* C12 as amended: the stages run in the order classifier, local repository,
\* manifest, customizer, build driver, verifier.  At every step of run() the
\* effects of the stages before it are in place and those of the stages from
\* it on are not: in particular the artifacts are staged when the manifest
\* is about to be written.
C12_StagesInCodeOrder ==
    \A w \in Attempts :
        InRun(w) =>
            LET r == StageRank(pc[w])
                before(label) == r <= StageRank(label)
            IN  /\ result[w] = NoResult
                /\ before("classify") =>
                       /\ loc[w].repo_packages = <<>>
                       /\ loc[w].aur_packages = <<>>
                       /\ loc[w].packages = <<>>
                /\ before("stage") =>
                       /\ fs.local_repo = {} /\ fs.stanzas = 0
                       /\ loc[w].successfully_copied_aur = <<>>
                       /\ loc[w].failed_aur_packages = <<>>
                /\ ~before("stage") /\ config.include_custom_repos =>
                       fs.local_repo =
                           SeqToSet(SuccessfullyCopiedAur(loc[w].aur_packages,
                                        host.local_db, host.pkg_cache))
                           \ host.cp_fails
                /\ before("manifest") =>
                       /\ loc[w].pkg_count = 0
                       /\ ~before("profile") => fs.pkg_file = host.base_profile
                /\ ~before("manifest") =>
                       /\ loc[w].pkg_count > 0
                       /\ ReRead(fs.pkg_file) = loc[w].pkg_lines
                /\ before("customize") => fs.pkglist = NoFile
                /\ ~before("customize") => fs.pkglist = loc[w].pkg_lines
                /\ before("launch") =>
                       proc[w].state = "none" /\ fs.iso = 0 /\ fs.squashfs = 0
                /\ ~before("launch") => proc[w].state # "none"
                /\ before("launch") => loc[w].lines_read = 0
                /\ pc[w] = "verify" => proc[w].state = "exited"

\* C12 witness: the non-repository artifact of a is in the local repository
\* and the manifest is still to be written.
C12_Witness ==
    /\ pc[1] = "manifest"
    /\ fs.local_repo = { << "a" >> }
    /\ loc[1].pkg_count = 0
    /\ fs.pkg_file = host.base_profile

\* run() of attempt w has raised in a stage and reported it from its
\* except clause.
Aborted(w) == result[w].reason \in { "exception", "missing_critical" }

\* C13: an attempt aborted by a stage-fatal condition has returned from
\* run() with a failure, never launched the builder and read none of its
\* output; no step changes what it has done afterwards, and build_finished
\* receives that one failure and nothing else.
C13_AbortEndsAttempt ==
    /\ [](\A w \in Attempts :
             Aborted(w) =>
                 /\ pc[w] = "done"
                 /\ ~result[w].success
                 /\ proc[w].state = "none"
                 /\ loc[w].lines_read = 0
                 /\ progress[w] <= 60
                 /\ fin[w] = "queued" => outcomes[w] = <<>>
                 /\ fin[w] = "delivered" => outcomes[w] = << result[w] >>)
    /\ [][\A w \in Attempts :
             Aborted(w) =>
                 /\ pc'[w] = pc[w] /\ loc'[w] = loc[w] /\ proc'[w] = proc[w]
                 /\ progress'[w] = progress[w] /\ result'[w] = result[w]
                 /\ fs' = fs]_vars

\* C13 witness: the rewrite of profiledef.sh has failed after progress 50;
\* the failure has been delivered and is the attempt's only outcome.
C13_Witness ==
    /\ result[1].reason = "exception"
    /\ progress[1] = 50
    /\ fs.pkglist # NoFile
    /\ fin[1] = "delivered"
    /\ outcomes[1] = << result[1] >>

\* C14: at most one attempt at a time is inside run(), working on work_dir
\* and output_dir; no attempt starts while the worker of an earlier one, a
\* stopped one included, is still running.
C14_OneAttemptOnDirectories ==
    Cardinality({ w \in Attempts : InRun(w) }) <= 1

\* C15: no USBWriterThread runs while an ISOBuilderThread is still inside
\* run(), whatever the operator does and whenever the workers finish.
C15_WriterNeverBesideBuilder ==
    gui.usb_writers > 0 => \A w \in Attempts : ~InRun(w)

\* C16: when an attempt emits progress 10, work_dir and output_dir hold
\* nothing an earlier attempt has left.
C16_CleanAtProgressTen ==
    [][\A w \in Attempts :
          pc[w] = "cleanup" /\ progress'[w] = 10 => fs' = EmptyFs]_vars

\* C17: no step of the pipeline changes the host's sync databases, local
\* database or package cache, and the staged pacman.conf receives the
\* [local-repo] stanza at most once in an attempt.
C17_HostPackageStateUntouched ==
    /\ [][/\ host'.sync_db = host.sync_db
          /\ host'.local_db = host.local_db
          /\ host'.pkg_cache = host.pkg_cache]_vars
    /\ [](fs.stanzas <= 1)

\* C18: once the local repository stage is over, the repository index
\* exists and the [local-repo] stanza has been appended exactly when an
\* artifact was staged; with nothing staged there is neither.
C18_IndexAndStanzaIffStaged ==
    \A w \in Attempts :
        InRun(w) /\ StageRank(pc[w]) > StageRank("stage") =>
            /\ (fs.repo_db /\ fs.stanzas = 1) <=> fs.local_repo # {}
            /\ fs.local_repo = {} => ~fs.repo_db /\ fs.stanzas = 0

\* C19: the manifest builder is idempotent.  Run on the file it has just
\* written, with the same candidates and exclusions, it writes the same file
\* again and returns the same list and count; and run again on the base
\* profile the attempt started from, it writes the file that is on disk.
C19_RebuildIsIdentity ==
    \A w \in Attempts :
        ManifestBuilt(w) =>
            LET first == BuildPackageList(host.base_profile, loc[w].packages,
                                          config.excluded_packages)
                again == BuildPackageList(fs.pkg_file, loc[w].packages,
                                          config.excluded_packages)
            IN  /\ first.file = fs.pkg_file
                /\ again.file = fs.pkg_file
                /\ again.pkg_lines = loc[w].pkg_lines
                /\ again.pkg_count = loc[w].pkg_count

\* C19 witness: a manifest whose first build changed the file: the base line
\* a was excluded, and gdm, which the base list does not name, was added.
C19_Witness ==
    /\ ManifestBuilt(1)
    /\ fs.pkg_file # host.base_profile
    /\ << "a" >> \in BaseNames \cap config.excluded_packages
    /\ << "gdm" >> \in ManifestOnDisk \ BaseNames

\* The comment lines of a package list, stripped, in order.
CommentLines(lines) ==
    LET stripped == [i \in DOMAIN lines |-> Strip(lines[i])]
        is_comment(line) == line # <<>> /\ Head(line) = HASH
    IN  SelectSeq(stripped, is_comment)

C21_EveryStepBestEffort ==
    customize.exit \notin { "none", "running" } =>
        /\ customize.exit = "ok"
        /\ \A i \in DOMAIN CustomizeCommands :
              CustomizeTest(customize, CustomizeCommands[i].when)
                  => CustomizeCommands[i].step \in customize.ran

\* C22: install.sh writes to the target disk only after the operator named
\* a block device and typed WIPE (and the system was booted by UEFI); a run
\* that ends before Partitioning has not written to it; and the states the
\* installer has been in are an initial part of Partitioning, Formatting,
\* Mounting, Installing, Configuring, BootloaderWritten, Done.
C22_NoWriteWithoutConfirmation ==
    /\ installer.touched =>
          installer.disk = "block" /\ installer.conf = "WIPE" /\ installer.uefi
    /\ installer.phases = <<>> => ~installer.touched
    /\ Len(installer.phases) <= Len(InstallerOrder)
    /\ installer.phases = SubSeq(InstallerOrder, 1, Len(installer.phases))
    /\ installer.exit = "cancelled" =>
          installer.conf = "wipe" /\ installer.phases = <<>>

\* C22 witness: a confirmed run that has partitioned, formatted, mounted,
\* installed, configured and run `bootctl install` on the disk.
C22_Witness ==
    /\ installer.touched
    /\ installer.conf = "WIPE"
    /\ installer.phases = SubSeq(InstallerOrder, 1, 6)

\* The builder lines that are fatal signals: those with an error keyword,
\* without `warning` and without a non-fatal pattern, in any letter case.
FatalLines ==
    { line \in BuilderLines :
        /\ \E keyword \in { "error:", "failed", "fatal:", "cannot", "unable" } :
              Has(keyword, Lower(line))
        /\ ~Has("warning", Lower(line))
        /\ \A pattern \in non_fatal_patterns : ~HasPhrase(pattern, Lower(line)) }

\* C23: reading a builder line records a fatal signal exactly when the line
\* is one of the fatal lines (error_detected stays set once it is), and it
\* changes neither the subprocess nor the position of run(), which stays
\* in the loop; a fatal signal is only ever recorded by a fatal line.
C23_FatalSignalIffKeywordNotAllowed ==
    /\ [][\A w \in Attempts :
            loc'[w].lines_read # loc[w].lines_read =>
                /\ loc'[w].error_detected
                   = (loc[w].error_detected \/ loc'[w].line \in FatalLines)
                /\ proc'[w] = proc[w]
                /\ pc'[w] = pc[w]
                /\ fin'[w] = fin[w]]_vars
    /\ [](FatalLines = { << "error:", "target", "not", "found" >> })

\* C23 witness: a fatal signal was recorded for the first line and a second
\* line, not fatal, has been read after it from the running builder.
C23_Witness ==
    /\ loc[1].error_detected
    /\ loc[1].lines_read = 2
    /\ loc[1].line \notin FatalLines
    /\ proc[1].state = "running"

\* C24: the classification step puts every non-blank name of the inventory
\* in exactly one of the two lists, once, dropping none: a name the sync
\* databases resolve is a repository package, and a name whose query
\* returns nonzero is a non-repository package.
C24_EveryNameClassifiedOnce ==
    [][\A w \in Attempts :
         pc[w] = "classify" /\ pc'[w] \in { "stage", "manifest" } =>
            LET repo == IF config.include_custom_repos
                        THEN loc'[w].repo_packages ELSE loc'[w].packages
                aur == loc'[w].aur_packages
                names == { pkg \in SeqToSet(host.all_packages) : Strip(pkg) # <<>> }
            IN  /\ SeqToSet(repo) \cup SeqToSet(aur) = names
                /\ SeqToSet(repo) \cap SeqToSet(aur) = {}
                /\ Len(repo) + Len(aur) = Cardinality(names)
                /\ \A pkg \in names :
                      /\ pkg \in host.sync_db => pkg \in SeqToSet(repo)
                      /\ pkg \notin host.sync_db => pkg \in SeqToSet(aur)]_vars

\* C24 witness: an inventory classified into a repository package (linux)
\* and a package whose query failed (gdm).
C24_Witness ==
    /\ pc[1] = "stage"
    /\ loc[1].repo_packages = << << "linux" >> >>
    /\ loc[1].aur_packages = << << "gdm" >> >>

\* C25: with an image found and a payload located that is very small (below
\* 0.1 GiB), the outcome is success when the image size check passes (the
\* image is at least 1 GiB) and failure when it does not.
C25_SmallPayloadDecidedBySize ==
    \A w \in Attempts :
        /\ Verified(w)
        /\ loc[w].iso_size > 0
        /\ loc[w].squashfs_size > 0
        /\ loc[w].squashfs_size <= SmallPayload
        => (result[w].success <=> loc[w].iso_size >= GiB)

\* C26: the media-write worker emits only 10, 20, 60, 80 and 100, the value
\* it emits never goes down within one write, and 100 is emitted only after
\* dd has exited with code 0.
C26_WriterProgressNeverDecreases ==
    /\ [](writer.progress \in { 0, 10, 20, 60, 80, 100 })
    /\ [](writer.progress = 100 => writer.dd = "exited" /\ writer.returncode = 0)
    /\ [][writer'.progress >= writer.progress]_vars

\* C27: a manifest of fewer than 10 packages that holds the required
\* packages is only warned about: the step that builds it logs the warning,
\* emits progress 40 and goes on to the customizer, and no attempt ever
\* ends because of the size of its manifest.
C27_SmallManifestOnlyWarned ==
    /\ [][\A w \in Attempts :
            /\ pc[w] = "manifest"
            /\ pc'[w] # "manifest"
            /\ loc'[w].pkg_count > 0
            /\ loc'[w].pkg_count < MinPackages
            /\ required_packages \subseteq SeqToSet(loc'[w].pkg_lines)
            => /\ pc'[w] = "customize"
               /\ progress'[w] = 40
               /\ loc'[w].small_warning
               /\ fin'[w] = "none"]_vars
    /\ [](\A w \in Attempts :
            /\ loc[w].small_warning => loc[w].pkg_count < MinPackages
            /\ loc[w].pkg_count >= MinPackages => ~loc[w].small_warning)

\* C27 witness: an attempt whose manifest has 8 packages was warned about
\* and is reading the output of the builder it launched.
C27_Witness ==
    /\ loc[1].small_warning
    /\ loc[1].pkg_count = 8
    /\ pc[1] = "stream"
    /\ loc[1].lines_read > 0

\* C28: a non-repository package is marked as successfully copied only when
\* its artifact is in the local repository directory; and a written manifest
\* that names a non-repository package of the inventory comes with that
\* package's artifact in the local repository and the [local-repo] stanza
\* in pacman.conf.
C28_StagedOnlyIfCopied ==
    \A w \in Attempts :
        InRun(w) /\ StageRank(pc[w]) > StageRank("stage") =>
            /\ SeqToSet(loc[w].successfully_copied_aur) \subseteq fs.local_repo
            /\ pc[w] # "manifest" =>
                  \A pkg \in SeqToSet(loc[w].aur_packages)
                               \cap SeqToSet(loc[w].pkg_lines) :
                      pkg \in fs.local_repo /\ fs.stanzas >= 1

C30_OneMilestonePerLine ==
    /\ [][\A w \in Attempts :
            loc'[w].lines_read # loc[w].lines_read =>
                LET line == loc'[w].line
                    line_lower == Lower(line)
                    payload == /\ Has("squashfs", line_lower)
                               /\ \/ Has("creating", line_lower)
                                  \/ Has("created", line_lower)
                    image == Has("iso", line_lower) /\ Has("creating", line_lower)
                    installing == /\ Has("packages", line_lower)
                                  /\ Has("installing", line_lower)
                    building == /\ Has("building", line_lower)
                                /\ Has("airootfs", line_lower)
                    emitted == IF payload THEN << 80 >>
                               ELSE IF image THEN << 90 >>
                               ELSE IF installing THEN << 50 >>
                               ELSE IF building THEN << 60 >>
                               ELSE <<>>
                IN  /\ loc'[w].lines_read = loc[w].lines_read + 1
                    /\ line \in BuilderLines
                    /\ loc'[w].line_emitted = emitted
                    /\ progress'[w] = IF emitted = <<>> THEN progress[w]
                                      ELSE emitted[1]
                    /\ loc'[w].line_log[1] = line
                    /\ Cardinality({ i \in DOMAIN loc'[w].line_log :
                                        loc'[w].line_log[i] = line }) = 1]_vars
    /\ [](\A w \in Attempts : Len(loc[w].line_emitted) <= 1)

\* C30 witness: the second line read names both mkarchiso (which holds
\* "iso") and the creation of the SquashFS payload, and 80 was emitted for
\* it after the 90 of the line before.
C30_Witness ==
    /\ loc[1].lines_read = 2
    /\ loc[1].line = << "[mkarchiso]", "INFO:", "Creating", "SquashFS", "image" >>
    /\ loc[1].line_emitted = << 80 >>
    /\ progress[1] = 80
    /\ pc[1] = "stream"

\* C31: once _build_package_list has returned, the list it returned is the
\* stripped lines of packages.x86_64 that are neither blank nor comments, in
\* file order, and the count is the length of that list; once the
\* customizer has written pkglist.txt, its lines are that same list in the
\* same order.
C31_ReturnedListIsTheFile ==
    \A w \in Attempts :
        \/ ManifestBuilt(w)
        \/ InRun(w) /\ StageRank(pc[w]) > StageRank("manifest")
        => LET stripped == [i \in DOMAIN fs.pkg_file |-> Strip(fs.pkg_file[i])]
               names(line) == line # <<>> /\ Head(line) # HASH
           IN  /\ fs.pkg_file # NoFile
               /\ loc[w].pkg_lines = SelectSeq(stripped, names)
               /\ loc[w].pkg_count = Len(loc[w].pkg_lines)
               /\ InRun(w) /\ StageRank(pc[w]) > StageRank("customize")
                      => fs.pkglist = loc[w].pkg_lines

\* C31 witness: the builder is running on a profile whose manifest has the
\* separator comment and gdm after it, and pkglist.txt holds the returned
\* names, fewer than the lines of the manifest.
C31_Witness ==
    /\ pc[1] = "stream"
    /\ proc[1].state = "running"
    /\ fs.pkglist = loc[1].pkg_lines
    /\ \E i \in DOMAIN fs.pkg_file :
           /\ fs.pkg_file[i] = AddedComment
           /\ \E j \in DOMAIN fs.pkg_file : j > i /\ fs.pkg_file[j] = << "gdm" >>
    /\ Len(loc[1].pkg_lines) < Len(fs.pkg_file)
    /\ loc[1].pkg_count = Len(loc[1].pkg_lines)

\* C32: the profiledef.sh that run() writes has as many lines as the file
\* it read (the releng original when there is one), in the same order; a
\* line whose stripped text starts with iso_name=, iso_label=,
\* iso_publisher=, iso_application= or pacman_conf= is replaced by that key
\* with the value run() sets for it, and every other line is written as it
\* was read.
C32_OnlyKeyLinesRewritten ==
    profiledef.pc = "done" /\ profiledef.raised # "FileNotFoundError" =>
        LET read == IF profiledef.original # NoFile
                    THEN profiledef.original ELSE StaleProfiledef
            written == profiledef.file
            value == [ key \in ProfiledefKeys |->
                         CASE key = "iso_name=" -> profiledef.iso_name
                           [] key = "iso_label=" -> profiledef.iso_label
                           [] key = "iso_publisher=" -> "Custom Arch Linux"
                           [] key = "iso_application=" ->
                                  "Custom Arch Linux Live/Install"
                           [] OTHER -> "pacman.conf" ]
            first(line) == LET rest == SelectSeq(line, LAMBDA a : a \notin { SP, NL })
                           IN  IF rest = <<>> THEN "" ELSE Head(rest)
        IN  /\ Len(written) = Len(read)
            /\ \A i \in DOMAIN read :
                   IF first(read[i]) \in ProfiledefKeys
                   THEN written[i] = << first(read[i]), DQ, value[first(read[i])],
                                        DQ, NL >>
                   ELSE written[i] = read[i]

\* C32 witness: a two-line original whose publisher line was replaced and
\* whose unterminated install_dir line was written as it was.
C32_Witness ==
    /\ profiledef.pc = "done"
    /\ profiledef.original = << << "iso_publisher=", DQ, "Arch Linux", DQ, NL >>,
                                << "install_dir=", DQ, "arch", DQ >> >>
    /\ profiledef.file = << << "iso_publisher=", DQ, "Custom Arch Linux", DQ, NL >>,
                            << "install_dir=", DQ, "arch", DQ >> >>

\* C33: an image is offered for reuse only if its name matches
\* <iso_name>*.iso, it is the most recently modified such file and it is
\* less than 24 hours old; when the operator answers Yes, no worker has
\* left the idle state, the working and output directories are as the
\* earlier build left them, no progress was emitted by a worker, and
\* build_finished was called exactly once, with success and that image.
C33_ReuseSkipsThePipeline ==
    /\ reuse.existing_iso # NoImage =>
           /\ reuse.existing_iso \in reuse.images
           /\ Head(reuse.existing_iso.name) = "custom-arch"
           /\ reuse.existing_iso.name[Len(reuse.existing_iso.name)] = ".iso"
           /\ reuse.existing_iso.age < DaySeconds
    /\ reuse.reply = "Yes" =>
           /\ \A w \in Attempts : pc[w] = "idle" /\ progress[w] = 0
                                   /\ fin[w] = "none" /\ outcomes[w] = <<>>
           /\ gui.builder_thread = 0
           /\ fs = EarlierFs
           /\ reuse.finished = << [ success |-> TRUE,
                                    message |-> reuse.existing_iso.name ] >>
           /\ gui.last_iso_path
    /\ reuse.reply # "Yes" => reuse.finished = <<>>

\* C33 witness: of two matching images the older is a day old and the newer
\* one second less; the newer was offered, accepted and handed to the media
\* write.
C33_Witness ==
    /\ reuse.reply = "Yes"
    /\ reuse.images = { [ name |-> << "custom-arch", "-2026.11", ".iso" >>,
                          age |-> DaySeconds - 1 ],
                        [ name |-> << "custom-arch", "-2026.10", ".iso" >>,
                          age |-> DaySeconds ] }
    /\ reuse.existing_iso.age = DaySeconds - 1
    /\ Len(reuse.finished) = 1
    /\ gui.usb_writers = 1

\* C34: a build worker run without root ends at once with the failure
\* "root required": the directories and the host stay as they were, no
\* subprocess is started and no progress is emitted. A media write run
\* without root, or on a device that does not exist, ends with a failure
\* before progress is emitted and before umount or dd is started.
C34_NoSideEffectWithoutRoot ==
    /\ [](\A w \in Attempts :
            ~host.is_root /\ pc[w] # "idle" =>
                /\ pc[w] \in { "start", "done" }
                /\ pc[w] = "done" =>
                       /\ result[w] = [ success |-> FALSE,
                                        reason |-> "root_required" ]
                       /\ fin[w] # "none"
                /\ fs = EarlierFs
                /\ progress[w] = 0
                /\ proc[w] = NoProcess
                /\ loc[w] = InitLoc)
    /\ [](~writer.is_root \/ ~writer.device_exists =>
            /\ writer.pc \in { "start", "done" }
            /\ writer.pc = "done" =>
                   /\ ~writer.result.success
                   /\ writer.result.reason =
                          IF ~writer.is_root THEN "root_required" ELSE "no_device"
                   /\ writer.fin # "none"
            /\ writer.progress = 0
            /\ writer.commands = {}
            /\ writer.dd = "none"
            /\ writer.lines_read = 0)
    /\ [][~host.is_root => host' = host /\ fs' = fs /\ config' = config]_vars

\* C34 witness: both workers were run without root and both failures have
\* reached the GUI, the directories of the earlier build still there.
C34_Witness ==
    /\ ~host.is_root
    /\ pc[1] = "done"
    /\ outcomes[1] = << [ success |-> FALSE, reason |-> "root_required" ] >>
    /\ writer.fin = "delivered"
    /\ writer.result.reason = "root_required"
    /\ fs = EarlierFs

\* C35: a started run() eventually emits finished_signal and is then over;
\* the signal is emitted exactly when run() ends, and from then on the
\* attempt changes neither its own state nor the directories or the host.
C35_EveryAttemptFinishes ==
    /\ \A w \in Attempts :
          (pc[w] = "start") ~> (pc[w] = "done" /\ fin[w] # "none")
    /\ [](\A w \in Attempts : fin[w] # "none" <=> pc[w] = "done")
    /\ [][\A w \in Attempts :
            fin[w] # "none" =>
                /\ fin'[w] # "none"
                /\ pc'[w] = pc[w]
                /\ result'[w] = result[w]
                /\ loc'[w] = loc[w]
                /\ proc'[w] = proc[w]
                /\ progress'[w] = progress[w]
                /\ fs' = fs
                /\ host' = host]_vars

\* C35 witness: the attempt went through every stage and its Success has
\* been emitted and delivered.
C35_Witness ==
    /\ pc[1] = "done"
    /\ fin[1] = "delivered"
    /\ result[1].success
    /\ proc[1].state = "exited"
    /\ progress[1] = 100

\* C36: the worker's progress becomes 100 in one step only, the one that
\* follows the exit of mkarchiso and precedes the verifier, with no outcome
\* emitted yet; once there the progress no longer changes. So an attempt
\* that ended after mkarchiso exited ended at 100, whatever the verdict,
\* and an attempt that ended without an exited mkarchiso never had 100.
C36_HundredAfterExitBeforeVerdict ==
    /\ [][\A w \in Attempts :
            /\ progress'[w] = 100 /\ progress[w] # 100 =>
                   /\ proc[w].state = "exited"
                   /\ pc[w] = "stream" /\ pc'[w] = "verify"
                   /\ fin[w] = "none" /\ fin'[w] = "none"
            /\ progress[w] = 100 => progress'[w] = 100
            /\ pc[w] \in { "verify", "done" } => progress'[w] = progress[w]]_vars
    /\ [](\A w \in Attempts :
            /\ progress[w] = 100 =>
                   proc[w].state = "exited" /\ pc[w] \in { "verify", "done" }
            /\ pc[w] = "done" =>
                   (progress[w] = 100 <=> proc[w].state = "exited"))

\* C36 witness: mkarchiso exited with a nonzero code and left no image; the
\* attempt failed, at progress 100.
C36_Witness ==
    /\ pc[1] = "done"
    /\ ~result[1].success
    /\ result[1].reason = "exit_code"
    /\ proc[1].state = "exited"
    /\ progress[1] = 100

\* C37: the step that builds the manifest extends the candidate list by
\* GUI-required packages only, in the order of gui_must, and a GUI-required
\* package is among them exactly when it is not excluded, was not a
\* candidate and is not in the installed inventory; so one that is
\* installed and was dropped before stays out of the candidates.
C37_GuiAddedIffAbsentEverywhere ==
    [][\A w \in Attempts :
          pc[w] = "manifest" /\ pc'[w] # "manifest" =>
              LET before == loc[w].packages
                  after == loc'[w].packages
                  added == SubSeq(after, Len(before) + 1, Len(after))
                  is_added(must) == must \in SeqToSet(added)
              IN  /\ Len(after) >= Len(before)
                  /\ SubSeq(after, 1, Len(before)) = before
                  /\ added = SelectSeq(gui_must, is_added)
                  /\ \A i \in DOMAIN gui_must :
                         is_added(gui_must[i]) <=>
                             /\ gui_must[i] \notin config.excluded_packages
                             /\ gui_must[i] \notin SeqToSet(before)
                             /\ gui_must[i] \notin SeqToSet(host.all_packages)]_vars

\* C37 witness: gdm is installed from outside the repositories and was
\* dropped before the manifest; the other GUI-required packages were added
\* to the candidates, gdm was not.
C37_Witness ==
    /\ ManifestBuilt(1)
    /\ << "gdm" >> \in SeqToSet(host.all_packages)
    /\ << "gdm" >> \notin host.sync_db
    /\ << "gdm" >> \notin config.excluded_packages
    /\ << "gdm" >> \notin SeqToSet(loc[1].packages)
    /\ << "mesa" >> \in SeqToSet(loc[1].packages)
    /\ << "xorg-server" >> \in SeqToSet(loc[1].packages)

====
